---------------------------- MODULE Spec2Model ----------------------------
(***************************************************************************)
(* Guardian Angel: the rule-based keyword scorer (tools/scam_detector.py), *)
(* the streaming aggregation loop of analyze_call and the verdict          *)
(* extractor extract_final_verdict (audio-scam-detection/app.py).          *)
(*                                                                         *)
(* Text is a sequence of characters (one-character strings); the regular   *)
(* expressions of the source are written out as operators over such        *)
(* sequences.                                                              *)
(***************************************************************************)
EXTENDS Integers, Sequences, FiniteSets, TLC

VARIABLES
    call,             \* pure functions: the call made (operation and arguments)
    ret,              \* pure functions: the value it returned
    pc,               \* analyze_call: position of the run
    messages,         \* analyze_call: the list of labels "[source] content"
    full_log,         \* analyze_call: the combined log handed to the extractor
    agent_msg_index,  \* analyze_call: source -> index into messages (from 0)
    final_messages,   \* analyze_call: the list built from a TaskResult
    final_log,        \* analyze_call: the log built from a TaskResult
    shown,            \* analyze_call: what the last yield displayed
    n_events,         \* history: number of events taken from the stream
    rec_len,          \* history: number of messages read from the TaskResult
    streamed,         \* history: the streamed events that were not dropped
    rec_last,         \* history: source -> last usable text of the TaskResult read
    final_seen,       \* history: a TaskResult has replaced the lists
    final_content,    \* history: rec_last of the last TaskResult that did so
    last_kind,        \* history: kind of the last event handled
    ended,            \* history: how the stream ended
    team,             \* app.py: the module's _team, shared by every call
    frames,           \* analyze_call: the locals messages, full_log and
                      \* agent_msg_index of each call in progress
    run_pc,           \* analyze_call: where each call stands
    run_events,       \* history: number of events each call took
    run_shown,        \* analyze_call: what each call's last yield displayed
    chat_state,       \* team: where the group chat of one run stands
    chat_turns,       \* team: number of turns taken in the run
    chat_log,         \* team: the messages of the run, the task first
    chat_stream,      \* team: the events the run's stream has yielded
    db_kind,          \* DatabaseConnector: which of the two connectors is in use
    db_rows,          \* DatabaseConnector: the stored records, oldest first
    db_calls          \* store_result: the calls in progress and their outcome

scoreVars == <<call, ret>>
poolVars == <<team, frames, run_pc, run_events, run_shown>>
chatVars == <<chat_state, chat_turns, chat_log, chat_stream>>
storeVars == <<db_kind, db_rows, db_calls>>
runVars == <<pc, messages, full_log, agent_msg_index, final_messages, final_log,
             shown, n_events, rec_len, streamed, rec_last, final_seen,
             final_content, last_kind, ended>>
vars == <<call, ret, pc, messages, full_log, agent_msg_index, final_messages,
          final_log, shown, n_events, rec_len, streamed, rec_last, final_seen,
          final_content, last_kind, ended, team, frames, run_pc, run_events,
          run_shown,
          chat_state, chat_turns, chat_log, chat_stream, db_kind, db_rows,
          db_calls>>

-----------------------------------------------------------------------------
(* Bounds of the model.                                                    *)

\* longest match list handed to _compute_score directly
MaxMatches == 3
\* largest high_sev handed to _compute_score directly
MaxHighSev == 3
\* get_threat_level is called with scores from -ScoreMargin to 100 + ScoreMargin
ScoreMargin == 30
\* a transcript is a concatenation of at most MaxFrags fragments
MaxFrags == 3
\* a run takes at most MaxEvents events from the stream
MaxEvents == 3
\* a TaskResult holds at most MaxRecord messages
MaxRecord == 3

-----------------------------------------------------------------------------
(* Characters and strings.                                                 *)

Min(a, b) == IF a <= b THEN a ELSE b

Range(s) == {s[i] : i \in 1..Len(s)}

UpperLetters == <<"A","B","C","D","E","F","G","H","I","J","K","L","M",
                  "N","O","P","Q","R","S","T","U","V","W","X","Y","Z">>
LowerLetters == <<"a","b","c","d","e","f","g","h","i","j","k","l","m",
                  "n","o","p","q","r","s","t","u","v","w","x","y","z">>
Digits == <<"0","1","2","3","4","5","6","7","8","9">>

\* str.lower() on one character
LowerChar(c) ==
    IF \E i \in 1..26 : UpperLetters[i] = c
    THEN LowerLetters[CHOOSE i \in 1..26 : UpperLetters[i] = c]
    ELSE c

\* str.upper() on one character
UpperChar(c) ==
    IF \E i \in 1..26 : LowerLetters[i] = c
    THEN UpperLetters[CHOOSE i \in 1..26 : LowerLetters[i] = c]
    ELSE c

Lower(s) == [i \in 1..Len(s) |-> LowerChar(s[i])]
Upper(s) == [i \in 1..Len(s) |-> UpperChar(s[i])]

\* Kannada characters, each one element of a text named by its code point:
\* the letters KHA and TA, which are alphanumeric to Python, and the vowel
\* signs AA and E, which are combining marks and are not
KannadaLetters == {"U0C96", "U0CA4"}
KannadaSigns == {"U0CBE", "U0CC6"}

\* regex \w, \s, \d on the characters the model uses
IsWordChar(c) ==
    c \in Range(UpperLetters) \cup Range(LowerLetters) \cup Range(Digits) \cup {"_"}
           \cup KannadaLetters
IsSpace(c) == c \in {" ", "\n", "\t", "\r"}
IsDigit(c) == c \in Range(Digits)

\* p occurs in t starting at position i
MatchAt(t, p, i) ==
    /\ i >= 1
    /\ i + Len(p) - 1 <= Len(t)
    /\ \A j \in 1..Len(p) : t[i + j - 1] = p[j]

\* Python's  p in t
Contains(t, p) == \E i \in 1..(Len(t) - Len(p) + 1) : MatchAt(t, p, i)

\* regex \b between positions i-1 and i of t (i in 1..Len(t)+1)
WordAt(t, i) == i >= 1 /\ i <= Len(t) /\ IsWordChar(t[i])
WordBoundary(t, i) == WordAt(t, i - 1) # WordAt(t, i)

\* re.search(r'\b' + re.escape(p) + r'\b', t)
ContainsWord(t, p) ==
    \E i \in 1..(Len(t) - Len(p) + 1) :
        /\ MatchAt(t, p, i)
        /\ WordBoundary(t, i)
        /\ WordBoundary(t, i + Len(p))

\* str.strip()
RECURSIVE LStrip(_)
LStrip(s) == IF s # <<>> /\ IsSpace(Head(s)) THEN LStrip(Tail(s)) ELSE s
RECURSIVE RStrip(_)
RStrip(s) ==
    IF s # <<>> /\ IsSpace(s[Len(s)]) THEN RStrip(SubSeq(s, 1, Len(s) - 1)) ELSE s
Strip(s) == RStrip(LStrip(s))

\* concatenation of a sequence of strings
RECURSIVE Flatten(_)
Flatten(ss) == IF ss = <<>> THEN <<>> ELSE Head(ss) \o Flatten(Tail(ss))

-----------------------------------------------------------------------------
(* tools/scam_detector.py: keyword lists.  Each list is a part of the      *)
(* source list, in the order of the source, that holds every entry that    *)
(* occurs in a transcript built from Fragments (below); the entries left   *)
(* out match no such transcript.                                           *)

S_arrest == <<"a","r","r","e","s","t">>
S_digital_arrest == <<"d","i","g","i","t","a","l"," ","a","r","r","e","s","t">>
S_police == <<"p","o","l","i","c","e">>
S_fir == <<"f","i","r">>
S_remain_on_this_call ==
    <<"r","e","m","a","i","n"," ","o","n"," ","t","h","i","s"," ","c","a","l","l">>
S_takshana == <<"t","a","k","s","h","a","n","a">>
S_trai == <<"t","r","a","i">>
S_sarkar == <<"s","a","r","k","a","r">>
S_urgent == <<"u","r","g","e","n","t">>
S_emergency == <<"e","m","e","r","g","e","n","c","y">>
S_lakh == <<"l","a","k","h">>
S_paise == <<"p","a","i","s","e">>
\* the Kannada word for 'account': KHA, sign AA, TA, sign E
S_khaate == <<"U0C96","U0CBE","U0CA4","U0CC6">>

FEAR_KEYWORDS_EN == <<S_arrest, S_digital_arrest, S_police, S_fir, S_remain_on_this_call>>
FEAR_KEYWORDS_HI == <<S_police, S_fir>>
FEAR_KEYWORDS_KN == <<S_takshana>>
FEAR_KEYWORDS_KN_UNICODE == <<>>

AUTHORITY_KEYWORDS_EN == <<S_trai>>
AUTHORITY_KEYWORDS_HI == <<S_trai, S_sarkar>>
AUTHORITY_KEYWORDS_KN == <<S_sarkar>>
AUTHORITY_KEYWORDS_KN_UNICODE == <<>>

URGENCY_KEYWORDS_EN == <<S_urgent, S_emergency, S_remain_on_this_call>>
URGENCY_KEYWORDS_HI == <<S_emergency>>
URGENCY_KEYWORDS_KN == <<S_takshana>>
URGENCY_KEYWORDS_KN_UNICODE == <<>>

FINANCIAL_KEYWORDS_EN == <<S_lakh>>
FINANCIAL_KEYWORDS_HI == <<S_lakh>>
FINANCIAL_KEYWORDS_KN == <<S_paise>>
FINANCIAL_KEYWORDS_KN_UNICODE == <<S_khaate>>

HIGH_SEVERITY_PHRASES == <<S_digital_arrest, S_remain_on_this_call>>

-----------------------------------------------------------------------------
(* tools/scam_detector.py: helpers and ScamDetector.                       *)

\* one keyword of _find_matches' loop: word-boundary search for a keyword of
\* at most 5 characters, substring search for a longer one
keyword_matches(text_lower, kw) ==
    LET kw_lower == Lower(kw)
    IN  IF Len(kw_lower) <= 5
        THEN ContainsWord(text_lower, kw_lower)
        ELSE Contains(text_lower, kw_lower)

\* find_matches that reports a keyword once for each place it occurs at
find_matches_counting(text, keywords) ==
    LET text_lower == Lower(text)
        Places(kw) == Cardinality({i \in 1..Len(text_lower) :
                                      MatchAt(text_lower, Lower(kw), i)})
    IN  Flatten([k \in 1..Len(keywords) |->
                    [j \in 1..Places(keywords[k]) |-> keywords[k]]])

\* the list of the keywords that match, in list order, one entry per list entry
find_matches(text, keywords) ==
    LET text_lower == Lower(text)
    IN  SelectSeq(keywords, LAMBDA kw : keyword_matches(text_lower, kw))

count_high_severity(text) ==
    LET text_lower == Lower(text)
    IN  Cardinality({i \in 1..Len(HIGH_SEVERITY_PHRASES) :
                        Contains(text_lower, Lower(HIGH_SEVERITY_PHRASES[i]))})

WEIGHTS == [fear |-> 25, authority |-> 25, urgency |-> 25, financial |-> 25]

\* contribution2 without the cap at two matches
contribution2_uncapped(matches, weight) == Len(matches) * weight

\* Python floats are kept exactly as a count of half points: every value the
\* function adds up is a multiple of 0.5.  contribution2 is twice
\* (hits / 2) * weight.
contribution2(matches, weight) ==
    LET hits == Min(Len(matches), 2)
    IN  hits * weight

\* int(x) of a float given in half points: truncation toward zero
IntOfHalves(h) == IF h >= 0 THEN h \div 2 ELSE -((-h) \div 2)

\* compute_score without the bonus for several categories and without the
\* bonus for high-severity phrases
compute_score_unboosted(fear, authority, urgency, financial, high_sev) ==
    LET s1 == contribution2(fear, WEIGHTS.fear)
              + contribution2(authority, WEIGHTS.authority)
              + contribution2(urgency, WEIGHTS.urgency)
              + contribution2(financial, WEIGHTS.financial)
    IN  Min(IntOfHalves(s1), 100)

compute_score(fear, authority, urgency, financial, high_sev) ==
    LET s1 == contribution2(fear, WEIGHTS.fear)
              + contribution2(authority, WEIGHTS.authority)
              + contribution2(urgency, WEIGHTS.urgency)
              + contribution2(financial, WEIGHTS.financial)
        triggered == Cardinality({i \in 1..4 :
                        <<fear, authority, urgency, financial>>[i] # <<>>})
        s2 == IF triggered >= 2 THEN s1 + 2 * 10 ELSE s1
        s3 == s2 + 2 * (Min(high_sev, 2) * 15)
    IN  Min(IntOfHalves(s3), 100)

\* get_threat_level with strict comparisons
get_threat_level_strict(threat_score) ==
    IF threat_score > 75 THEN "CRITICAL"
    ELSE IF threat_score > 50 THEN "HIGH_RISK"
    ELSE IF threat_score > 25 THEN "SUSPICIOUS"
    ELSE "SAFE"

get_threat_level(threat_score) ==
    IF threat_score >= 75 THEN "CRITICAL"
    ELSE IF threat_score >= 50 THEN "HIGH_RISK"
    ELSE IF threat_score >= 25 THEN "SUSPICIOUS"
    ELSE "SAFE"

empty_result ==
    [fear_indicators |-> {}, authority_impersonation |-> {},
     urgency_signals |-> {}, financial_pressure |-> {},
     threat_score |-> 0, high_severity_count |-> 0]

\* re.sub(r"\[Language:.*?\]", "", text): every leftmost, shortest
\* "[Language:" ... "]" on one line is removed
S_LanguageTag == <<"[","L","a","n","g","u","a","g","e",":">>

\* length of the match of \[Language:.*?\] at position i, 0 when there is none
TagLenAt(t, i) ==
    IF ~MatchAt(t, S_LanguageTag, i) THEN 0
    ELSE LET from == i + Len(S_LanguageTag)
             ends == {j \in from..Len(t) :
                         /\ t[j] = "]"
                         /\ \A k \in from..(j - 1) : t[k] # "\n"}
         IN  IF ends = {} THEN 0
             ELSE (CHOOSE j \in ends : \A k \in ends : j <= k) - i + 1

RECURSIVE RemoveTagsFrom(_, _)
RemoveTagsFrom(t, i) ==
    IF i > Len(t) THEN <<>>
    ELSE IF TagLenAt(t, i) > 0 THEN RemoveTagsFrom(t, i + TagLenAt(t, i))
    ELSE <<t[i]>> \o RemoveTagsFrom(t, i + 1)

\* line 247 without the removal of the tag
strip_only(text) == Strip(text)

strip_language_tag(text) == Strip(RemoveTagsFrom(text, 1))

\* the four lists of matches and the count, as analyze_text computes them
\* (lines 247-262)
analyze_matches(text) ==
    LET clean_text == strip_language_tag(text)
        all_fear == FEAR_KEYWORDS_EN \o FEAR_KEYWORDS_HI
                    \o FEAR_KEYWORDS_KN \o FEAR_KEYWORDS_KN_UNICODE
        all_authority == AUTHORITY_KEYWORDS_EN \o AUTHORITY_KEYWORDS_HI
                         \o AUTHORITY_KEYWORDS_KN \o AUTHORITY_KEYWORDS_KN_UNICODE
        all_urgency == URGENCY_KEYWORDS_EN \o URGENCY_KEYWORDS_HI
                       \o URGENCY_KEYWORDS_KN \o URGENCY_KEYWORDS_KN_UNICODE
        all_financial == FINANCIAL_KEYWORDS_EN \o FINANCIAL_KEYWORDS_HI
                         \o FINANCIAL_KEYWORDS_KN \o FINANCIAL_KEYWORDS_KN_UNICODE
    IN  [fear |-> find_matches(clean_text, all_fear),
         authority |-> find_matches(clean_text, all_authority),
         urgency |-> find_matches(clean_text, all_urgency),
         financial |-> find_matches(clean_text, all_financial),
         high_sev |-> count_high_severity(clean_text)]

\* analyze_text without the test of line 243
analyze_text_unguarded(arg) ==
    LET m == analyze_matches(arg.text)
    IN  [fear_indicators |-> Range(m.fear),
         authority_impersonation |-> Range(m.authority),
         urgency_signals |-> Range(m.urgency),
         financial_pressure |-> Range(m.financial),
         threat_score |-> compute_score(m.fear, m.authority, m.urgency,
                                        m.financial, m.high_sev),
         high_severity_count |-> m.high_sev]

\* ScamDetector.analyze_text.  arg.is_str is FALSE for None and any other
\* non-string argument; arg.text is then what the value holds (nothing for
\* None, 0 or an empty list, the characters of a bytes value or of a list).  list(set(x)) is a list of the distinct entries in an
\* order Python does not fix: the model keeps the set.
analyze_text(arg) ==
    IF ~arg.is_str \/ arg.text = <<>> THEN empty_result
    ELSE LET m == analyze_matches(arg.text)
             threat_score == compute_score(m.fear, m.authority, m.urgency,
                                           m.financial, m.high_sev)
         IN  [fear_indicators |-> Range(m.fear),
              authority_impersonation |-> Range(m.authority),
              urgency_signals |-> Range(m.urgency),
              financial_pressure |-> Range(m.financial),
              threat_score |-> threat_score,
              high_severity_count |-> m.high_sev]

-----------------------------------------------------------------------------
(* The scorer's callers: transcripts and direct calls.                     *)

F_police == S_police
F_fir == S_fir
F_m == <<"m">>
F_space == <<" ">>
F_arrest == S_arrest
F_digital == <<"d","i","g","i","t","a","l"," ">>
F_trai == S_trai
F_emergency == S_emergency
F_lakh == S_lakh
F_remain == S_remain_on_this_call
F_tag == <<"[","L","a","n","g","u","a","g","e",":"," ","h","i","]">>
\* a tag whose code is also a keyword, with the newline that transcribe puts
\* after the tag
F_tag_line == <<"[","L","a","n","g","u","a","g","e",":"," ","f","i","r","]","\n">>
F_URGENT == <<"U","R","G","E","N","T">>
F_stop == <<".", " ">>
F_takshana == S_takshana
F_khaate == S_khaate

\* the pieces a transcript is built from
Fragments == {F_police, F_fir, F_m, F_space, F_arrest, F_digital, F_trai,
              F_emergency, F_lakh, F_remain, F_tag, F_tag_line, F_URGENT, F_takshana,
              F_khaate, F_stop}

Transcripts == {Flatten(fs) : fs \in UNION {[1..n -> Fragments] : n \in 0..MaxFrags}}

\* a list of n matches, as _find_matches may return it
MatchList(n) == [i \in 1..n |-> S_police]

\* the calls made to the scorer
ComputeScoreCalls ==
    {[op |-> "_compute_score", fear |-> MatchList(nf), authority |-> MatchList(na),
      urgency |-> MatchList(nu), financial |-> MatchList(nn), high_sev |-> h] :
        nf \in 0..MaxMatches, na \in 0..MaxMatches, nu \in 0..MaxMatches,
        nn \in 0..MaxMatches, h \in 0..MaxHighSev}

GetThreatLevelCalls ==
    {[op |-> "get_threat_level", threat_score |-> s] :
        s \in (0 - ScoreMargin)..(100 + ScoreMargin)}

AnalyzeTextCalls ==
    {[op |-> "analyze_text", is_str |-> TRUE, text |-> t] : t \in Transcripts}
    \cup {[op |-> "analyze_text", is_str |-> FALSE, text |-> t] :
              t \in {<<>>, S_police, S_digital_arrest}}

\* direct calls of _find_matches with one keyword: the keyword, as written
\* or in upper case, between a text before and a text after it, or a text
\* without it
FindKeywords == {S_fir, S_trai, S_police, S_emergency, S_khaate}
TextsBefore == {<<>>, <<"x">>, <<" ">>, <<"(">>, <<"s","a","y"," ">>}
TextsAfter == {<<>>, <<"x">>, <<" ">>, <<")",".">>, <<" ","n","o","w">>}

FindMatchesCalls ==
    {[op |-> "_find_matches",
      text |-> b \o (IF u THEN Upper(kw) ELSE kw) \o a,
      keywords |-> <<kw>>] :
        kw \in FindKeywords, b \in TextsBefore, a \in TextsAfter, u \in BOOLEAN}
    \cup {[op |-> "_find_matches", text |-> b \o a, keywords |-> <<kw>>] :
              kw \in FindKeywords, b \in TextsBefore, a \in TextsAfter}

\* ret before and after the call returns
Pending == [done |-> FALSE]
Returned(v) == [done |-> TRUE, value |-> v]

ScoreInit ==
    /\ call \in ComputeScoreCalls \cup GetThreatLevelCalls \cup AnalyzeTextCalls
                \cup FindMatchesCalls
    /\ ret = Pending

ReturnComputeScore ==
    /\ UNCHANGED <<chatVars, storeVars, runVars, poolVars>>
    /\ call.op = "_compute_score"
    /\ ret = Pending
    /\ ret' = Returned(compute_score(call.fear, call.authority, call.urgency,
                                     call.financial, call.high_sev))
    /\ UNCHANGED call

ReturnGetThreatLevel ==
    /\ UNCHANGED <<chatVars, storeVars, runVars, poolVars>>
    /\ call.op = "get_threat_level"
    /\ ret = Pending
    /\ ret' = Returned(get_threat_level(call.threat_score))
    /\ UNCHANGED call

ReturnAnalyzeText ==
    /\ UNCHANGED <<chatVars, storeVars, runVars, poolVars>>
    /\ call.op = "analyze_text"
    /\ ret = Pending
    /\ ret' = Returned(analyze_text(call))
    /\ UNCHANGED call

ReturnFindMatches ==
    /\ UNCHANGED <<chatVars, storeVars, runVars, poolVars>>
    /\ call.op = "_find_matches"
    /\ ret = Pending
    /\ ret' = Returned(find_matches(call.text, call.keywords))
    /\ UNCHANGED call

ScoreNext ==
    \/ ReturnComputeScore
    \/ ReturnGetThreatLevel
    \/ ReturnAnalyzeText
    \/ ReturnFindMatches

\* no run of analyze_call
\* no group chat is run
ChatIdle ==
    /\ chat_state = "none"
    /\ chat_turns = 0
    /\ chat_log = <<>>
    /\ chat_stream = <<>>

\* no record is stored
StoreIdle ==
    /\ db_kind = "none"
    /\ db_rows = <<>>
    /\ db_calls = <<>>

\* no call of analyze_call is made
PoolIdle ==
    /\ team = [made |-> FALSE, running |-> {}]
    /\ frames = <<>>
    /\ run_pc = <<>>
    /\ run_events = <<>>
    /\ run_shown = <<>>

RunIdle ==
    /\ pc = "idle"
    /\ messages = <<>>
    /\ full_log = <<>>
    /\ agent_msg_index = <<>>
    /\ final_messages = <<>>
    /\ final_log = <<>>
    /\ shown = [kind |-> "none"]
    /\ n_events = 0
    /\ rec_len = 0
    /\ streamed = <<>>
    /\ rec_last = <<>>
    /\ final_seen = FALSE
    /\ final_content = <<>>
    /\ last_kind = "none"
    /\ ended = "no"

InitScore == ScoreInit /\ RunIdle /\ PoolIdle /\ ChatIdle /\ StoreIdle

SpecScore == InitScore /\ [][ScoreNext]_vars

-----------------------------------------------------------------------------
(* audio-scam-detection/app.py: analyze_call, the loop over the event      *)
(* stream.  A label f"[{source}] {content}" is kept as the pair of its     *)
(* source and content and is written out by LabelText; a log, a sequence   *)
(* of labels each followed by a newline, is written out by LogText.        *)

KNOWN_AGENTS == {"Speech_Agent", "Reasoning_Agent", "Decision_Agent", "Action_Agent"}

\* the sources of the events of the streams: two of the agents and the
\* user's task
Sources == {"Speech_Agent", "Decision_Agent", "user"}

\* the non-empty texts of the events of a stream
Texts == {"partial", "final"}

SourceChars(s) ==
    CASE s = "Speech_Agent" -> <<"S","p","e","e","c","h","_","A","g","e","n","t">>
      [] s = "Reasoning_Agent" ->
            <<"R","e","a","s","o","n","i","n","g","_","A","g","e","n","t">>
      [] s = "Decision_Agent" ->
            <<"D","e","c","i","s","i","o","n","_","A","g","e","n","t">>
      [] s = "Action_Agent" -> <<"A","c","t","i","o","n","_","A","g","e","n","t">>
      [] s = "user" -> <<"u","s","e","r">>

\* contents of a stage that bear on the verdict: a transcript that echoes a
\* whole verdict block, a bare labelled level, and a verdict block
T_echo_safe == <<"F","I","N","A","L","_","V","E","R","D","I","C","T"," ","T","h","r","e","a","t"," ","L","e","v","e","l",":"," ","S","A","F","E"," ","D","E","C","I","S","I","O","N","_","D","O","N","E">>
T_says_critical == <<"T","h","r","e","a","t"," ","L","e","v","e","l",":"," ","C","R","I","T","I","C","A","L">>
T_verdict_critical == <<"F","I","N","A","L","_","V","E","R","D","I","C","T",":","\n","-"," ","T","h","r","e","a","t"," ","L","e","v","e","l",":"," ","C","R","I","T","I","C","A","L","\n","-"," ","T","h","r","e","a","t"," ","S","c","o","r","e",":"," ","9","0","\n","D","E","C","I","S","I","O","N","_","D","O","N","E">>

ContentChars(c) ==
    CASE c = "partial" -> <<"p","a","r","t","i","a","l">>
      [] c = "final" -> <<"f","i","n","a","l">>
      [] c = "" -> <<>>
      [] c = "call_1" -> <<"c","a","l","l"," ","1">>
      [] c = "call_2" -> <<"c","a","l","l"," ","2">>
      [] c = "call_3" -> <<"c","a","l","l"," ","3">>
      [] c = "echo_safe" -> T_echo_safe
      [] c = "says_critical" -> T_says_critical
      [] c = "verdict_critical" -> T_verdict_critical

Label(s, c) == [source |-> s, content |-> c]
LabelText(x) == <<"[">> \o SourceChars(x.source) \o <<"]", " ">> \o ContentChars(x.content)
LogText(log) == Flatten([i \in 1..Len(log) |-> LabelText(log[i]) \o <<"\n">>])

\* x.startswith(f"[{s}]")
StartsWithSource(x, s) == MatchAt(LabelText(x), <<"[">> \o SourceChars(s) \o <<"]">>, 1)

\* keep_last that keeps the earlier label of s instead of the new one
keep_first(fm, s, c) ==
    IF \E i \in 1..Len(fm) : StartsWithSource(fm[i], s) THEN fm
    ELSE Append(fm, Label(s, c))

\* lines 353-364, one message m of the TaskResult with a known source s and
\* a non-empty text c: the earlier label of s is dropped and the new one is
\* put last
keep_last(fm, s, c) ==
    Append(SelectSeq(fm, LAMBDA x : ~StartsWithSource(x, s)), Label(s, c))

\* stream_update that appends a label for every event
always_append(msgs, log, index, source, content_str) ==
    [messages |-> Append(msgs, Label(source, content_str)),
     full_log |-> Append(log, Label(source, content_str)),
     agent_msg_index |-> (source :> Len(msgs)) @@ index,
     raised |-> FALSE]

\* lines 391-401: the lists after a streamed event that is not dropped;
\* raised when messages[idx] is out of range (IndexError)
\* stream_update that replaces the entry and leaves the log as it was
stream_update_stale_log(msgs, log, index, source, content_str) ==
    LET label == Label(source, content_str)
    IN  IF source \notin DOMAIN index
        THEN [messages |-> Append(msgs, label),
              full_log |-> Append(log, label),
              agent_msg_index |-> (source :> Len(msgs)) @@ index,
              raised |-> FALSE]
        ELSE LET idx == index[source]
             IN  IF idx >= Len(msgs)
                 THEN [messages |-> msgs, full_log |-> log,
                       agent_msg_index |-> index, raised |-> TRUE]
                 ELSE [messages |-> [msgs EXCEPT ![idx + 1] = label],
                       full_log |-> log,
                       agent_msg_index |-> index,
                       raised |-> FALSE]

stream_update(msgs, log, index, source, content_str) ==
    LET label == Label(source, content_str)
    IN  IF source \notin DOMAIN index
        THEN [messages |-> Append(msgs, label),
              full_log |-> Append(log, label),
              agent_msg_index |-> (source :> Len(msgs)) @@ index,
              raised |-> FALSE]
        ELSE LET idx == index[source]
             IN  IF idx >= Len(msgs)
                 THEN [messages |-> msgs, full_log |-> log,
                       agent_msg_index |-> index, raised |-> TRUE]
                 ELSE [messages |-> [msgs EXCEPT ![idx + 1] = label],
                       full_log |-> [msgs EXCEPT ![idx + 1] = label],
                       agent_msg_index |-> index,
                       raised |-> FALSE]

\* end_display without the test for an empty list of messages
always_verdict(msgs, log) == [kind |-> "verdict", full_log |-> log, pipeline |-> msgs]

\* lines 410-433: what the run displays when the stream has ended
end_display(msgs, log) ==
    IF msgs = <<>>
    THEN [kind |-> "no_responses"]
    ELSE [kind |-> "verdict", full_log |-> log, pipeline |-> msgs]

historyVars == <<n_events, rec_len, streamed, rec_last, final_seen,
                 final_content, last_kind, ended>>
listVars == <<messages, full_log, agent_msg_index>>
finalVars == <<final_messages, final_log>>

RunInit ==
    /\ pc = "start"
    /\ messages = <<>>
    /\ full_log = <<>>
    /\ agent_msg_index = <<>>
    /\ final_messages = <<>>
    /\ final_log = <<>>
    /\ shown = [kind |-> "none"]
    /\ n_events = 0
    /\ rec_len = 0
    /\ streamed = <<>>
    /\ rec_last = <<>>
    /\ final_seen = FALSE
    /\ final_content = <<>>
    /\ last_kind = "none"
    /\ ended = "no"

\* lines 296-301: no audio, no image and a blank transcript
NoInput ==
    /\ UNCHANGED <<chatVars, storeVars, scoreVars, poolVars>>
    /\ pc = "start"
    /\ shown' = [kind |-> "no_input"]
    /\ pc' = "done"
    /\ UNCHANGED <<listVars, finalVars, historyVars>>

\* lines 303-309: get_team() or team.reset() raises, outside the try
SetupRaises ==
    /\ UNCHANGED <<chatVars, storeVars, scoreVars, poolVars>>
    /\ pc = "start"
    /\ pc' = "done"
    /\ ended' = "setup_raised"
    /\ UNCHANGED <<listVars, finalVars, shown, n_events, rec_len, streamed,
                   rec_last, final_seen, final_content, last_kind>>

\* lines 303-344: the stream is opened with empty lists
Begin ==
    /\ UNCHANGED <<chatVars, storeVars, scoreVars, poolVars>>
    /\ pc = "start"
    /\ messages' = <<>>
    /\ full_log' = <<>>
    /\ agent_msg_index' = <<>>
    /\ pc' = "await"
    /\ UNCHANGED <<finalVars, shown, historyVars>>

\* stream_dropped that lets every source through
stream_dropped_if_empty(source, content_str) == content_str = ""

\* lines 385-386: the streamed event is skipped
stream_dropped(source, content_str) ==
    source \notin KNOWN_AGENTS \/ content_str = ""

\* lines 355-359: the message of the record is skipped
record_dropped(s, c, is_str) ==
    s \notin KNOWN_AGENTS \/ c = "" \/ ~is_str

\* lines 385-406, after source and content_str are read from the event
Streamed(kind, source, content_str) ==
    /\ UNCHANGED <<chatVars, storeVars, scoreVars, poolVars>>
    /\ pc = "await"
    /\ n_events < MaxEvents
    /\ n_events' = n_events + 1
    /\ last_kind' = kind
    /\ UNCHANGED <<finalVars, rec_len, rec_last, final_seen, final_content>>
    /\ IF stream_dropped(source, content_str)
       THEN UNCHANGED <<pc, listVars, shown, streamed, ended>>
       ELSE LET u == stream_update(messages, full_log, agent_msg_index,
                                   source, content_str)
            IN  IF u.raised
                THEN /\ pc' = "done"
                     /\ ended' = "index_error"
                     /\ shown' = [kind |-> "error", pipeline |-> messages]
                     /\ UNCHANGED <<listVars, streamed>>
                ELSE /\ messages' = u.messages
                     /\ full_log' = u.full_log
                     /\ agent_msg_index' = u.agent_msg_index
                     /\ streamed' = Append(streamed, Label(source, content_str))
                     /\ shown' = [kind |-> "analyzing", pipeline |-> u.messages]
                     /\ UNCHANGED <<pc, ended>>

\* lines 375-377
TextMessage ==
    \E source \in Sources, content \in Texts \cup {""} :
        Streamed("TextMessage", source, content)

\* lines 378-381: a content that is not a string is read as ""
Response ==
    \E source \in Sources, content \in Texts \cup {""}, is_str \in BOOLEAN :
        Streamed("Response", source, IF is_str THEN content ELSE "")

\* lines 382-383: any other event (tool calls, tool results)
OtherEvent ==
    /\ UNCHANGED <<chatVars, storeVars, scoreVars, poolVars>>
    /\ pc = "await"
    /\ n_events < MaxEvents
    /\ n_events' = n_events + 1
    /\ last_kind' = "Other"
    /\ UNCHANGED <<pc, listVars, finalVars, shown, rec_len, streamed, rec_last,
                   final_seen, final_content, ended>>

\* lines 348-352: a TaskResult arrives
TaskResultBegin ==
    /\ UNCHANGED <<chatVars, storeVars, scoreVars, poolVars>>
    /\ pc = "await"
    /\ n_events < MaxEvents
    /\ n_events' = n_events + 1
    /\ pc' = "final_loop"
    /\ final_messages' = <<>>
    /\ final_log' = <<>>
    /\ rec_len' = 0
    /\ rec_last' = <<>>
    /\ UNCHANGED <<listVars, shown, streamed, final_seen, final_content,
                   last_kind, ended>>

\* lines 353-364: the next message m of event.messages
RecordMessage(s, c, is_str) ==
    /\ UNCHANGED <<chatVars, storeVars, scoreVars, poolVars>>
    /\ pc = "final_loop"
    /\ rec_len < MaxRecord
    /\ rec_len' = rec_len + 1
    /\ IF record_dropped(s, c, is_str)
       THEN UNCHANGED <<finalVars, rec_last>>
       ELSE /\ final_messages' = keep_last(final_messages, s, c)
            /\ final_log' = keep_last(final_messages, s, c)
            /\ rec_last' = (s :> c) @@ rec_last
    /\ UNCHANGED <<pc, listVars, shown, n_events, streamed, final_seen,
                   final_content, last_kind, ended>>

TaskResultMessage ==
    \E s \in Sources, c \in Texts \cup {""}, is_str \in BOOLEAN :
        RecordMessage(s, c, is_str)

\* lines 366-372: event.messages is exhausted.  final_messages and final_log
\* are not read again before lines 351-352 set them anew: they are cleared.
TaskResultEnd ==
    /\ UNCHANGED <<chatVars, storeVars, scoreVars, poolVars>>
    /\ pc = "final_loop"
    /\ pc' = "await"
    /\ IF final_log # <<>>
       THEN /\ messages' = final_messages
            /\ full_log' = final_log
            /\ final_seen' = TRUE
            /\ final_content' = rec_last
            /\ last_kind' = "TaskResult"
       ELSE /\ UNCHANGED <<messages, full_log, final_seen, final_content>>
            /\ last_kind' = "TaskResultEmpty"
    /\ final_messages' = <<>>
    /\ final_log' = <<>>
    /\ rec_len' = 0
    /\ rec_last' = <<>>
    /\ UNCHANGED <<agent_msg_index, shown, n_events, streamed, ended>>

\* the stream, or team.analyze, raises: lines 435-442
StreamRaises ==
    /\ UNCHANGED <<chatVars, storeVars, scoreVars, poolVars>>
    /\ pc = "await"
    /\ pc' = "done"
    /\ ended' = "raised"
    /\ shown' = [kind |-> "error", pipeline |-> messages]
    /\ UNCHANGED <<listVars, finalVars, n_events, rec_len, streamed, rec_last,
                   final_seen, final_content, last_kind>>

\* the stream is exhausted: lines 408-433
StreamEnds ==
    /\ UNCHANGED <<chatVars, storeVars, scoreVars, poolVars>>
    /\ pc = "await"
    /\ pc' = "done"
    /\ ended' = "closed"
    /\ shown' = end_display(messages, full_log)
    /\ UNCHANGED <<listVars, finalVars, n_events, rec_len, streamed, rec_last,
                   final_seen, final_content, last_kind>>

RunNext ==
    \/ NoInput
    \/ SetupRaises
    \/ Begin
    \/ TextMessage
    \/ Response
    \/ OtherEvent
    \/ TaskResultBegin
    \/ TaskResultMessage
    \/ TaskResultEnd
    \/ StreamRaises
    \/ StreamEnds

NoCall ==
    /\ call = [op |-> "none"]
    /\ ret = Pending

Init == RunInit /\ NoCall /\ PoolIdle /\ ChatIdle /\ StoreIdle

Spec == Init /\ [][RunNext]_vars

-----------------------------------------------------------------------------
(* audio-scam-detection/app.py: _strip_md and extract_final_verdict.  The  *)
(* patterns are matched as Python's re matches them: the leftmost start,   *)
(* greedy runs, the shortest lazy group.  With re.IGNORECASE a literal is  *)
(* compared with the lower-cased text.                                     *)

P_final_verdict == <<"f","i","n","a","l","_","v","e","r","d","i","c","t">>
P_decision_done == <<"d","e","c","i","s","i","o","n","_","d","o","n","e">>
P_threat == <<"t","h","r","e","a","t">>
P_level == <<"l","e","v","e","l">>
P_score == <<"s","c","o","r","e">>
P_summary == <<"s","u","m","m","a","r","y">>
P_caller == <<"c","a","l","l","e","r">>
P_type == <<"t","y","p","e">>
P_recommendation == <<"r","e","c","o","m","m","e","n","d","a","t","i","o","n">>
P_safe == <<"s","a","f","e">>
P_suspicious == <<"s","u","s","p","i","c","i","o","u","s">>
P_high == <<"h","i","g","h">>
P_risk == <<"r","i","s","k">>
P_critical == <<"c","r","i","t","i","c","a","l">>

L_UNKNOWN == <<"U","N","K","N","O","W","N">>
L_Unknown == <<"U","n","k","n","o","w","n">>
L_CRITICAL == <<"C","R","I","T","I","C","A","L">>
L_HIGH_RISK == <<"H","I","G","H","_","R","I","S","K">>
L_HIGH_SPACE_RISK == <<"H","I","G","H"," ","R","I","S","K">>
L_SUSPICIOUS == <<"S","U","S","P","I","C","I","O","U","S">>
L_SAFE == <<"S","A","F","E">>

\* the least element of a non-empty set of integers
Least(S) == CHOOSE i \in S : \A j \in S : i <= j

\* the end of the longest run of characters of a class that starts at i:
\* the first position from i on whose character is not in the class
RunEnd(t, i, class) ==
    Least({j \in i..(Len(t) + 1) : j = Len(t) + 1 \/ t[j] \notin class})

\* the classes \s, \d, [:\s], [:\s*_] and [*_`#]
SpaceClass == {" ", "\n", "\t", "\r"}
DigitClass == Range(Digits)
ColonSpaceClass == {":"} \cup SpaceClass
LabelSepClass == {":", "*", "_"} \cup SpaceClass
\* the grave accent, which a string of this module cannot hold, is the
\* two-letter element "BQ" of a text
Backquote == "BQ"
IsMarkdown(c) == c \in {"*", "_", Backquote, "#"}

\* regex $ without re.MULTILINE: the end of the text, or just before a
\* newline that ends it
AtEnd(t, e) == e = Len(t) + 1 \/ (e = Len(t) /\ t[e] = "\n")

\* lines 50-52
strip_md(text) == Strip(SelectSeq(text, LAMBDA c : ~IsMarkdown(c)))

\* str.replace(" ", "_")
ReplaceSpaces(s) == [i \in 1..Len(s) |-> IF s[i] = " " THEN "_" ELSE s[i]]

\* int() of a run of digits
DigitValue(c) == (CHOOSE i \in 1..10 : Digits[i] = c) - 1
RECURSIVE IntOfDigits(_)
IntOfDigits(ds) ==
    IF ds = <<>> THEN 0
    ELSE 10 * IntOfDigits(SubSeq(ds, 1, Len(ds) - 1)) + DigitValue(ds[Len(ds)])

\* lines 67-69: the text between FINAL_VERDICT[:\s]* and DECISION_DONE or
\* the end; the whole text when there is no FINAL_VERDICT.  re.DOTALL
\* verdict_block that always falls back to the full log
verdict_block_whole(log_text) == log_text

verdict_block(log_text) ==
    LET low == Lower(log_text)
        starts == {i \in 1..Len(low) : MatchAt(low, P_final_verdict, i)}
    IN  IF starts = {} THEN log_text
        ELSE LET i == Least(starts)
                 j == RunEnd(log_text, i + Len(P_final_verdict), ColonSpaceClass)
                 k == Least({e \in j..(Len(low) + 1) :
                                MatchAt(low, P_decision_done, e) \/ AtEnd(log_text, e)})
             IN  SubSeq(log_text, j, k - 1)

\* the end of a label of one word, or of two words with \s* between them,
\* that starts at i; 0 when it does not start there
LabelEnd(low, i, words) ==
    IF ~MatchAt(low, words[1], i) THEN 0
    ELSE IF Len(words) = 1 THEN i + Len(words[1])
    ELSE LET a == RunEnd(low, i + Len(words[1]), SpaceClass)
         IN  IF MatchAt(low, words[2], a) THEN a + Len(words[2]) ELSE 0

\* the length of (SAFE|SUSPICIOUS|HIGH[_\s]RISK|CRITICAL) at position p,
\* 0 when none of them is there
LevelLenAt(low, p) ==
    IF MatchAt(low, P_safe, p) THEN Len(P_safe)
    ELSE IF MatchAt(low, P_suspicious, p) THEN Len(P_suspicious)
    ELSE IF /\ MatchAt(low, P_high, p)
            /\ p + 4 <= Len(low)
            /\ (low[p + 4] = "_" \/ IsSpace(low[p + 4]))
            /\ MatchAt(low, P_risk, p + 5)
         THEN 9
    ELSE IF MatchAt(low, P_critical, p) THEN Len(P_critical)
    ELSE 0

\* lines 72-75: group 1 of Threat\s*Level[:\s*_]+(SAFE|...), <<>> when the
\* pattern is not found
labelled_level(block) ==
    LET low == Lower(block)
        ValueAt(i) ==
            LET b == LabelEnd(low, i, <<P_threat, P_level>>)
            IN  IF b = 0 THEN 0
                ELSE LET c == RunEnd(low, b, LabelSepClass)
                     IN  IF c > b /\ LevelLenAt(low, c) > 0 THEN c ELSE 0
        starts == {i \in 1..Len(low) : ValueAt(i) > 0}
    IN  IF starts = {} THEN <<>>
        ELSE LET c == ValueAt(Least(starts))
             IN  SubSeq(block, c, c + LevelLenAt(low, c) - 1)

\* lines 80-83: the first of the level keywords that occurs in the block
FallbackLevels == <<L_CRITICAL, L_HIGH_RISK, L_HIGH_SPACE_RISK, L_SUSPICIOUS, L_SAFE>>

\* keyword_level that tries the mildest level first
keyword_level_mildest(block) ==
    LET low == Lower(block)
        hits == {n \in 1..Len(FallbackLevels) : Contains(low, Lower(FallbackLevels[n]))}
    IN  IF hits = {} THEN L_UNKNOWN
        ELSE ReplaceSpaces(FallbackLevels[CHOOSE n \in hits : \A k \in hits : k <= n])

keyword_level(block) ==
    LET low == Lower(block)
        hits == {n \in 1..Len(FallbackLevels) : Contains(low, Lower(FallbackLevels[n]))}
    IN  IF hits = {} THEN L_UNKNOWN
        ELSE ReplaceSpaces(FallbackLevels[Least(hits)])

\* lines 76-83
threat_level(block) ==
    LET g == labelled_level(block)
    IN  IF g # <<>> THEN ReplaceSpaces(Upper(strip_md(g)))
        ELSE keyword_level(block)

\* group 1 of  <label>[<class>]+(\d+), <<>> when the pattern is not found
labelled_digits(block, words, class) ==
    LET low == Lower(block)
        ValueAt(i) ==
            LET b == LabelEnd(low, i, words)
            IN  IF b = 0 THEN 0
                ELSE LET c == RunEnd(low, b, class)
                     IN  IF c > b /\ c <= Len(low) /\ IsDigit(low[c]) THEN c ELSE 0
        starts == {i \in 1..Len(low) : ValueAt(i) > 0}
    IN  IF starts = {} THEN <<>>
        ELSE LET c == ValueAt(Least(starts))
             IN  SubSeq(block, c, RunEnd(block, c, DigitClass) - 1)

\* threat_score that tries the bare score label before the full label
threat_score_bare_first(block) ==
    LET g1 == labelled_digits(block, <<P_threat, P_score>>, LabelSepClass)
        g2 == labelled_digits(block, <<P_score>>, ColonSpaceClass)
    IN  IF g2 # <<>> THEN IntOfDigits(g2)
        ELSE IF g1 # <<>> THEN IntOfDigits(g1)
        ELSE 0

\* lines 86-90
threat_score(block) ==
    LET g1 == labelled_digits(block, <<P_threat, P_score>>, LabelSepClass)
        g2 == labelled_digits(block, <<P_score>>, ColonSpaceClass)
    IN  IF g1 # <<>> THEN IntOfDigits(g1)
        ELSE IF g2 # <<>> THEN IntOfDigits(g2)
        ELSE 0

\* a stop that no bulleted field ends
BulletAt_never(t, e) == FALSE

\* line 93: (?=\n\s*[-*]\s+\w|DECISION_DONE|$) at position e
BulletAt(t, e) ==
    /\ e <= Len(t)
    /\ t[e] = "\n"
    /\ LET a == RunEnd(t, e + 1, SpaceClass)
       IN  /\ a <= Len(t)
           /\ t[a] \in {"-", "*"}
           /\ LET b == RunEnd(t, a + 1, SpaceClass)
              IN  b > a + 1 /\ b <= Len(t) /\ IsWordChar(t[b])

StopAt(t, low, e) ==
    BulletAt(t, e) \/ MatchAt(low, P_decision_done, e) \/ AtEnd(t, e)

\* lines 94-101: group 1 of  <label>[:\s*_]+(.+?)<stop>.  The run of
\* [:\s*_] is the longest that leaves a character for the group.
\* [found |-> FALSE] when the pattern is not found
labelled_text(block, words) ==
    LET low == Lower(block)
        n == Len(block)
        GroupAt(i) ==
            LET b == LabelEnd(low, i, words)
            IN  IF b = 0 THEN 0
                ELSE LET c == RunEnd(block, b, LabelSepClass)
                     IN  IF c = b THEN 0
                         ELSE IF c <= n THEN c
                         ELSE IF c - b >= 2 THEN c - 1
                         ELSE 0
        starts == {i \in 1..n : GroupAt(i) > 0}
    IN  IF starts = {} THEN [found |-> FALSE]
        ELSE LET g == GroupAt(Least(starts))
                 e == Least({x \in (g + 1)..(n + 1) : StopAt(block, low, x)})
             IN  [found |-> TRUE, text |-> SubSeq(block, g, e - 1)]

\* field that never finds the label
field_never_found(block, words, default) == default

field(block, words, default) ==
    LET m == labelled_text(block, words)
    IN  IF m.found THEN Strip(strip_md(m.text)) ELSE default

\* lines 55-103
extract_final_verdict(log_text) ==
    LET block == verdict_block(log_text)
    IN  [threat_level |-> threat_level(block),
         threat_score |-> threat_score(block),
         summary |-> field(block, <<P_summary>>, <<>>),
         caller_type |-> field(block, <<P_caller, P_type>>, L_Unknown),
         recommendation |-> field(block, <<P_recommendation>>, <<>>)]

-----------------------------------------------------------------------------
(* The specification of extract_final_verdict: the text is an aggregated   *)
(* log of labelled stage contents, as line 430 passes it, or a verdict     *)
(* block written out of the parts below; the function returns once.        *)

V_marker == <<"F","I","N","A","L","_","V","E","R","D","I","C","T",":","\n">>
V_done == <<"D","E","C","I","S","I","O","N","_","D","O","N","E">>
V_rest == <<"\n","-"," ","T","h","r","e","a","t"," ","S","c","o","r","e",":"," ","6","2","\n","-"," ","S","u","m","m","a","r","y",":"," ","L","i","k","e","l","y"," ","s","c","a","m",".","\n","-"," ","C","a","l","l","e","r"," ","T","y","p","e",":"," ","S","c","a","m","m","e","r","\n","-"," ","R","e","c","o","m","m","e","n","d","a","t","i","o","n",":"," ","H","a","n","g"," ","u","p",".","\n">>

LevelLabels == {<<"-"," ","T","h","r","e","a","t"," ","L","e","v","e","l">>, <<"t","h","r","e","a","t"," ","l","e","v","e","l">>, <<"T","h","r","e","a","t","L","e","v","e","l">>}
LevelSeps == {<<":"," ">>, <<":"," ","*","*">>, <<" ">>}
LevelNames == {<<"S","A","F","E">>, <<"S","U","S","P","I","C","I","O","U","S">>, <<"H","I","G","H","_","R","I","S","K">>, <<"H","I","G","H"," ","R","I","S","K">>, <<"h","i","g","h","_","r","i","s","k">>,
               <<"H","i","g","h"," ","R","i","s","k">>, <<"C","R","I","T","I","C","A","L">>, <<"c","r","i","t","i","c","a","l">>, <<"H","I","G","H","\n","R","I","S","K">>, <<"H","I","G","H","-","R","I","S","K">>}
LevelCloses == {<<>>, <<"*","*">>}

BlockParts ==
    [prefix : {<<>>, V_marker}, label : LevelLabels, sep : LevelSeps,
     name : LevelNames, close : LevelCloses, rest : {<<>>, V_rest},
     suffix : {<<>>, V_done}]

BlockText(p) == p.prefix \o p.label \o p.sep \o p.name \o p.close \o p.rest \o p.suffix

VerdictContents == {"partial", "echo_safe", "says_critical", "verdict_critical"}

\* the labels of a finished run, the terminal stage last
VerdictLogs ==
    {<<Label("Decision_Agent", c)>> : c \in VerdictContents}
    \cup {<<Label("Speech_Agent", c[1]), Label("Decision_Agent", c[2])>> :
              c \in VerdictContents \X VerdictContents}

\* the lines a verdict text is written of: the five labelled lines of a
\* block, a sentence that mentions a level, a bare score, a ratio, a score
\* label without a number, and a second labelled level
MaxLines == 3
VL_level == <<"-"," ","T","h","r","e","a","t"," ","L","e","v","e","l",":"," ","S","U","S","P","I","C","I","O","U","S","\n">>
VL_score == <<"-"," ","T","h","r","e","a","t"," ","S","c","o","r","e",":"," ","6","2","\n">>
VL_summary == <<"-"," ","S","u","m","m","a","r","y",":"," ","L","i","k","e","l","y"," ","s","c","a","m",".","\n">>
VL_caller == <<"-"," ","C","a","l","l","e","r"," ","T","y","p","e",":"," ","S","c","a","m","m","e","r","\n">>
VL_recommendation == <<"-"," ","R","e","c","o","m","m","e","n","d","a","t","i","o","n",":"," ","H","a","n","g"," ","u","p",".","\n">>
VL_mention_critical == <<"T","h","i","s"," ","i","s"," ","c","r","i","t","i","c","a","l",".","\n">>
VL_mention_safe == <<"S","t","a","y"," ","s","a","f","e",".","\n">>
VL_bare_score == <<"s","c","o","r","e",":"," ","4","0","/","1","0","0","\n">>
VL_ratio == <<"8","5","/","1","0","0","\n">>
VL_score_word == <<"T","h","r","e","a","t"," ","S","c","o","r","e",":"," ","h","i","g","h","\n">>
VL_level_safe == <<"T","h","r","e","a","t"," ","L","e","v","e","l",":"," ","*","*","S","A","F","E","*","*","\n">>
VerdictLines ==
    {V_marker, V_done, VL_level, VL_score, VL_summary, VL_caller, VL_recommendation,
     VL_mention_critical, VL_mention_safe, VL_bare_score, VL_ratio, VL_score_word, VL_level_safe}

\* the texts of at most MaxLines lines, as the sequences of their lines
LineSeqs == UNION {[1..n -> VerdictLines] : n \in 0..MaxLines}

\* sentences that mention a level, most severe first, in every order and
\* number, alone or with a labelled level before or after them
VL_mention_high == <<"H","i","g","h"," ","r","i","s","k"," ","c","a","l","l",".","\n">>
VL_mention_suspicious == <<"L","o","o","k","s"," ","s","u","s","p","i","c","i","o","u","s",".","\n">>
Mentions == <<VL_mention_critical, VL_mention_high, VL_mention_suspicious,
              VL_mention_safe>>
MentionOrders ==
    {f \in UNION {[1..n -> Range(Mentions)] : n \in 1..4} :
        \A i, j \in 1..Len(f) : f[i] = f[j] => i = j}
MentionTexts ==
    MentionOrders \cup {<<VL_level_safe>> \o f : f \in MentionOrders}
    \cup {f \o <<VL_level_safe>> : f \in MentionOrders}

\* a summary whose text names the caller type, before and behind the
\* caller type line
VL_summary_caller == <<"-"," ","S","u","m","m","a","r","y",":"," ","C","a","l","l","e","r"," ","t","y","p","e"," ","u","n","c","l","e","a","r",".","\n">>
NamedLabelOrders ==
    {<<VL_summary_caller, VL_caller>>, <<VL_caller, VL_summary_caller>>}

\* the five labelled lines of a block in every order
FieldLines == {VL_level, VL_score, VL_summary, VL_caller, VL_recommendation}
FieldOrders == {f \in [1..5 -> FieldLines] : \A i, j \in 1..5 : f[i] = f[j] => i = j}

NoParts == [prefix |-> <<>>, label |-> <<>>, sep |-> <<>>, name |-> <<>>,
            close |-> <<>>, rest |-> <<>>, suffix |-> <<>>]

ExtractCalls ==
    {[op |-> "extract_final_verdict", log_text |-> BlockText(p), parts |-> p,
      log |-> <<>>, lines |-> <<>>] : p \in BlockParts}
    \cup {[op |-> "extract_final_verdict", log_text |-> LogText(l), parts |-> NoParts,
           log |-> l, lines |-> <<>>] : l \in VerdictLogs}
    \cup {[op |-> "extract_final_verdict", log_text |-> Flatten(ls), parts |-> NoParts,
           log |-> <<>>, lines |-> ls] :
              ls \in LineSeqs \cup MentionTexts \cup NamedLabelOrders}
    \cup {[op |-> "extract_final_verdict",
           log_text |-> pre \o Flatten(f) \o suf, parts |-> NoParts,
           log |-> <<>>, lines |-> <<pre>> \o f \o <<suf>>] :
              pre \in {<<>>, V_marker}, f \in FieldOrders, suf \in {<<>>, V_done}}

VerdictInit == call \in ExtractCalls /\ ret = Pending

ReturnExtractFinalVerdict ==
    /\ call.op = "extract_final_verdict"
    /\ ret = Pending
    /\ ret' = Returned(extract_final_verdict(call.log_text))
    /\ UNCHANGED <<chatVars, storeVars, call, runVars, poolVars>>

VerdictNext ==
    \/ ReturnExtractFinalVerdict

InitVerdict == VerdictInit /\ RunIdle /\ PoolIdle /\ ChatIdle /\ StoreIdle

SpecVerdict == InitVerdict /\ [][VerdictNext]_vars

-----------------------------------------------------------------------------
(* audio-scam-detection/tools/alert_system.py: the escalation rules and    *)
(* AlertSystem.escalate.  A level is a whole string, as the dictionary     *)
(* looks it up.                                                            *)

\* at most MaxEmails addresses are configured for the family or the police
MaxEmails == 2

MSG_SAFE == "[SAFE] Call appears SAFE. No action required."
MSG_SUSPICIOUS == "[WARNING] SUSPICIOUS activity detected. Advise the senior NOT to share personal or financial details. Monitor the situation."
MSG_HIGH_RISK == "[HIGH RISK] HIGH RISK scam detected! Family members have been notified. Senior should end the call immediately and consult family."
MSG_CRITICAL == "[CRITICAL] CRITICAL THREAT -- SCAM CALL IN PROGRESS! Emergency alert sent to family AND local cybercrime police. Senior must HANG UP IMMEDIATELY. Do NOT share any information."

\* lines 17-50
ESCALATION_RULES ==
    [SAFE |-> [alert_family |-> FALSE, alert_police |-> FALSE, message |-> MSG_SAFE],
     SUSPICIOUS |-> [alert_family |-> FALSE, alert_police |-> FALSE,
                     message |-> MSG_SUSPICIOUS],
     HIGH_RISK |-> [alert_family |-> TRUE, alert_police |-> FALSE,
                    message |-> MSG_HIGH_RISK],
     CRITICAL |-> [alert_family |-> TRUE, alert_police |-> TRUE,
                   message |-> MSG_CRITICAL]]

\* the lookup with the rules of SAFE as the default
rules_default_safe(level) ==
    IF level \in DOMAIN ESCALATION_RULES
    THEN ESCALATION_RULES[level]
    ELSE ESCALATION_RULES["SAFE"]

\* line 111: _ESCALATION_RULES.get(threat_level, _ESCALATION_RULES["SUSPICIOUS"])
rules_for(level) ==
    IF level \in DOMAIN ESCALATION_RULES
    THEN ESCALATION_RULES[level]
    ELSE ESCALATION_RULES["SUSPICIOUS"]

\* lines 150-174 and 176-199: the e-mail is tried when a service and
\* addresses exist; a send that fails or raises falls back to the console.
\* send is what the e-mail service does: "ok", "fail" or "raise"
notify(email_service, emails, send) ==
    IF email_service /\ emails > 0 /\ send = "ok"
    THEN [success |-> TRUE, channel |-> "email"]
    ELSE [success |-> FALSE, channel |-> "console"]

\* lines 123-128 and 130-135: the line of the report for one notification
action_line(who, n, emails) ==
    IF n.success THEN [action |-> "notified", who |-> who, via |-> "email",
                       recipients |-> emails]
    ELSE [action |-> "notified", who |-> who, via |-> "console", recipients |-> 0]

\* lines 101-144
escalate(c) ==
    LET rules == rules_for(c.threat_level)
        family == notify(c.email_service, c.family_emails, c.family_send)
        police == notify(c.email_service, c.police_emails, c.police_send)
        a1 == IF rules.alert_family
              THEN <<action_line("family", family, c.family_emails)>> ELSE <<>>
        a2 == IF rules.alert_police
              THEN <<action_line("police", police, c.police_emails)>> ELSE <<>>
        actions == IF a1 \o a2 = <<>> THEN <<[action |-> "none"]>> ELSE a1 \o a2
    IN  [message |-> rules.message,
         actions |-> actions,
         family |-> IF rules.alert_family THEN family.channel ELSE "none",
         police |-> IF rules.alert_police THEN police.channel ELSE "none"]

\* the levels of the calls: the four levels of the table and strings that
\* are none of them
AlertLevels == {"SAFE", "SUSPICIOUS", "HIGH_RISK", "CRITICAL",
                "HIGHRISK", "UNKNOWN", "high_risk", "Critical", ""}
SendOutcomes == {"ok", "fail", "raise"}

EscalateCalls ==
    [op : {"escalate"}, threat_level : AlertLevels, email_service : BOOLEAN,
     family_emails : 0..MaxEmails, police_emails : 0..MaxEmails,
     family_send : SendOutcomes, police_send : SendOutcomes]

AlertInit == call \in EscalateCalls /\ ret = Pending

ReturnEscalate ==
    /\ call.op = "escalate"
    /\ ret = Pending
    /\ ret' = Returned(escalate(call))
    /\ UNCHANGED <<chatVars, storeVars, call, runVars, poolVars>>

AlertNext ==
    \/ ReturnEscalate

InitAlert == AlertInit /\ RunIdle /\ PoolIdle /\ ChatIdle /\ StoreIdle

SpecAlert == InitAlert /\ [][AlertNext]_vars

-----------------------------------------------------------------------------
(* audio-scam-detection/app.py: several calls of analyze_call at a time.   *)
(* Gradio's queue runs up to default_concurrency_limit calls at once; the  *)
(* calls share the module's _team and each has its own locals.  An event   *)
(* of the stream opened by call r carries the text RunText(r).  What the   *)
(* shared team does when it is asked to reset or to run while it runs is   *)
(* the library's: the call is refused, or it goes on.                      *)

\* demo.queue(default_concurrency_limit=3), line 750
default_concurrency_limit == 3
\* a call takes at most MaxRunEvents events from its stream
MaxRunEvents == 2
\* a TaskResult of a call holds at most MaxRunRecord messages
MaxRunRecord == 1

Runs == 1..default_concurrency_limit

\* the text of the events of the stream opened by call r
RunText(r) ==
    CASE r = 1 -> "call_1"
      [] r = 2 -> "call_2"
      [] OTHER -> "call_3"

\* lines 310-311 and 344: the locals of a call, as the call creates them
EmptyFrame == [messages |-> <<>>, full_log |-> <<>>, agent_msg_index |-> <<>>]

\* frame with one set of lists for all the calls, as module globals would be
frame_shared(r) == 1

\* the locals call r reads and writes: its own
frame(r) == r

\* lines 351-364: final_messages after the messages of a TaskResult
RECURSIVE final_messages_of(_)
final_messages_of(rec) ==
    IF rec = <<>> THEN <<>>
    ELSE LET fm == final_messages_of(SubSeq(rec, 1, Len(rec) - 1))
             m == rec[Len(rec)]
         IN  IF record_dropped(m.source, m.content, m.is_str) THEN fm
             ELSE keep_last(fm, m.source, m.content)

\* the sources of the events of a call's stream: an agent and the user's task
RunSources == {"Speech_Agent", "user"}

\* the records a TaskResult of call r may hold
RunRecords(r) ==
    UNION {[1..n -> [source : RunSources, content : {RunText(r), ""},
                     is_str : {TRUE}]] : n \in 0..MaxRunRecord}

PoolInit ==
    /\ team = [made |-> FALSE, running |-> {}]
    /\ frames = [r \in Runs |-> EmptyFrame]
    /\ run_pc = [r \in Runs |-> "start"]
    /\ run_events = [r \in Runs |-> 0]
    /\ run_shown = [r \in Runs |-> [kind |-> "none"]]

\* lines 296-301
CallNoInput ==
    \E r \in Runs :
        /\ run_pc[r] = "start"
        /\ run_pc' = [run_pc EXCEPT ![r] = "done"]
        /\ run_shown' = [run_shown EXCEPT ![r] = [kind |-> "no_input"]]
        /\ UNCHANGED <<chatVars, storeVars, team, frames, run_events, scoreVars, runVars>>

\* lines 303-309: team.reset() raises because the team is running, and the
\* error is raised again
CallRefused ==
    \E r \in Runs :
        /\ run_pc[r] = "start"
        /\ team.running # {}
        /\ team' = [team EXCEPT !.made = TRUE]
        /\ run_pc' = [run_pc EXCEPT ![r] = "done"]
        /\ UNCHANGED <<chatVars, storeVars, frames, run_events, run_shown, scoreVars, runVars>>

\* lines 303-346: get_team, reset, the locals, the stream is opened
CallBegins ==
    \E r \in Runs :
        /\ run_pc[r] = "start"
        /\ team' = [made |-> TRUE, running |-> team.running \cup {r}]
        /\ frames' = [frames EXCEPT ![frame(r)] = EmptyFrame]
        /\ run_pc' = [run_pc EXCEPT ![r] = "await"]
        /\ UNCHANGED <<chatVars, storeVars, run_events, run_shown, scoreVars, runVars>>

\* lines 374-406: a TextMessage or a Response of call r's stream
CallStreamed ==
    \E r \in Runs, source \in RunSources :
      \E content_str \in {RunText(r), ""} :
        /\ run_pc[r] = "await"
        /\ run_events[r] < MaxRunEvents
        /\ run_events' = [run_events EXCEPT ![r] = @ + 1]
        /\ UNCHANGED <<chatVars, storeVars, scoreVars, runVars>>
        /\ IF stream_dropped(source, content_str)
           THEN UNCHANGED <<team, frames, run_pc, run_shown>>
           ELSE LET f == frames[frame(r)]
                    u == stream_update(f.messages, f.full_log, f.agent_msg_index,
                                       source, content_str)
                IN  IF u.raised
                    THEN /\ run_pc' = [run_pc EXCEPT ![r] = "done"]
                         /\ run_shown' = [run_shown EXCEPT ![r] =
                                [kind |-> "error", pipeline |-> f.messages]]
                         /\ team' = [team EXCEPT !.running = @ \ {r}]
                         /\ UNCHANGED frames
                    ELSE /\ frames' = [frames EXCEPT ![frame(r)] =
                                [messages |-> u.messages, full_log |-> u.full_log,
                                 agent_msg_index |-> u.agent_msg_index]]
                         /\ run_shown' = [run_shown EXCEPT ![r] =
                                [kind |-> "analyzing", pipeline |-> u.messages]]
                         /\ UNCHANGED <<team, run_pc>>

\* lines 348-372: a TaskResult of call r's stream
CallTaskResult ==
    \E r \in Runs :
        \E rec \in RunRecords(r) :
            LET fm == final_messages_of(rec)
            IN  /\ run_pc[r] = "await"
                /\ run_events[r] < MaxRunEvents
                /\ run_events' = [run_events EXCEPT ![r] = @ + 1]
                /\ frames' = IF fm = <<>> THEN frames
                             ELSE [frames EXCEPT ![frame(r)].messages = fm,
                                                 ![frame(r)].full_log = fm]
                /\ UNCHANGED <<chatVars, storeVars, team, run_pc, run_shown, scoreVars, runVars>>

\* lines 408-433: call r's stream is exhausted
CallEnds ==
    \E r \in Runs :
        /\ run_pc[r] = "await"
        /\ run_pc' = [run_pc EXCEPT ![r] = "done"]
        /\ run_shown' = [run_shown EXCEPT ![r] =
                            end_display(frames[frame(r)].messages,
                                        frames[frame(r)].full_log)]
        /\ team' = [team EXCEPT !.running = @ \ {r}]
        /\ UNCHANGED <<chatVars, storeVars, frames, run_events, scoreVars, runVars>>

\* lines 435-442: call r's stream raises (the team refuses to run, or fails)
CallRaises ==
    \E r \in Runs :
        /\ run_pc[r] = "await"
        /\ run_pc' = [run_pc EXCEPT ![r] = "done"]
        /\ run_shown' = [run_shown EXCEPT ![r] =
                            [kind |-> "error",
                             pipeline |-> frames[frame(r)].messages]]
        /\ team' = [team EXCEPT !.running = @ \ {r}]
        /\ UNCHANGED <<chatVars, storeVars, frames, run_events, scoreVars, runVars>>

PoolNext ==
    \/ CallNoInput
    \/ CallRefused
    \/ CallBegins
    \/ CallStreamed
    \/ CallTaskResult
    \/ CallEnds
    \/ CallRaises

InitPool == PoolInit /\ NoCall /\ RunIdle /\ ChatIdle /\ StoreIdle

SpecPool == InitPool /\ [][PoolNext]_vars

(***************************************************************************)
(* The group chat of one run: agents_audio.py 248-254 builds a round-robin *)
(* team of the four agents with a ceiling of 8 turns and a termination     *)
(* condition on the sentinel text.  The team class itself is a library     *)
(* class; its scheduling is modelled as the specification describes it: a  *)
(* fixed cyclic turn sequence that halts on the sentinel or at the turn    *)
(* ceiling and then yields the final record.                               *)
(***************************************************************************)
\* line 251: the participants, in the order they are given
participants ==
    <<"Speech_Agent", "Reasoning_Agent", "Decision_Agent", "Action_Agent">>

\* line 252
max_turns == 8

\* line 248: the text of TextMentionTermination
GUARDIAN_ANGEL_COMPLETE == <<"G","U","A","R","D","I","A","N","_","A","N","G","E","L","_","C","O","M","P","L","E","T","E">>

\* what a message can say: nothing of note, the verdict's closing marker, or
\* a report that ends with the sentinel
M_plain == <<"o","k">>
M_report == <<"D","o","n","e","."," ","G","U","A","R","D","I","A","N","_","A","N","G","E","L","_","C","O","M","P","L","E","T","E">>
ChatTexts == {M_plain, P_decision_done, M_report}

\* TextMentionTermination: the text occurs in the message
mentions(content) == Contains(content, GUARDIAN_ANGEL_COMPLETE)

\* a scheduler that always gives the turn to the first participant
next_speaker_first(turns) == participants[1]

\* round robin: the participant whose turn comes after so many turns
next_speaker(turns) == participants[(turns % Len(participants)) + 1]

\* the team is built and has not run
ChatInit ==
    /\ chat_state = "built"
    /\ chat_turns = 0
    /\ chat_log = <<>>
    /\ chat_stream = <<>>

\* run_stream(task): the task is the first message of the run; the
\* termination condition is applied to it before any agent speaks
ChatRunStream ==
    /\ UNCHANGED <<scoreVars, runVars, poolVars, storeVars>>
    /\ chat_state = "built"
    /\ \E task \in ChatTexts :
          /\ chat_log' = <<[source |-> "user", content |-> task]>>
          /\ chat_stream' = <<"user">>
          /\ chat_state' = IF mentions(task) THEN "stopping" ELSE "running"
    /\ UNCHANGED chat_turns

\* one turn: the next participant answers, its message is yielded, and the
\* chat stops when the message mentions the sentinel or the ceiling is reached
ChatTurn ==
    /\ UNCHANGED <<scoreVars, runVars, poolVars, storeVars>>
    /\ chat_state = "running"
    /\ chat_turns < max_turns
    /\ \E content \in ChatTexts :
          LET speaker == next_speaker(chat_turns)
          IN  /\ chat_log' = Append(chat_log, [source |-> speaker, content |-> content])
              /\ chat_stream' = Append(chat_stream, speaker)
              /\ chat_turns' = chat_turns + 1
              /\ chat_state' = IF mentions(content) \/ chat_turns + 1 >= max_turns
                               THEN "stopping" ELSE "running"

\* the stopped chat yields the final record, and the stream ends
ChatTaskResult ==
    /\ UNCHANGED <<scoreVars, runVars, poolVars, storeVars>>
    /\ chat_state = "stopping"
    /\ chat_stream' = Append(chat_stream, "TaskResult")
    /\ chat_state' = "ended"
    /\ UNCHANGED <<chat_turns, chat_log>>

ChatNext ==
    \/ ChatRunStream
    \/ ChatTurn
    \/ ChatTaskResult

InitChat == ChatInit /\ NoCall /\ RunIdle /\ PoolIdle /\ StoreIdle

SpecChat == InitChat /\ [][ChatNext]_vars

\* every turn that is due is taken: the event loop runs the chat to its end
SpecChatFair == InitChat /\ [][ChatNext]_vars /\ WF_vars(ChatNext)

(***************************************************************************)
(* DatabaseConnector.store_result.  Two connectors carry the name: the     *)
(* MongoDB one (src/backend/tools/db_connector.py), which inserts under a  *)
(* unique index on the transcript hash, and the SQLite one                 *)
(* (src/image-scam-detection/tools/db_connector.py), which looks the hash  *)
(* up and then inserts into a table whose hash column is UNIQUE.  Callers  *)
(* run concurrently: a step of one caller can come between two steps of    *)
(* another.                                                                *)
(***************************************************************************)
MaxCallers == 2
MaxStoreCalls == 2

StoreCallers == 1..MaxCallers
StoreTexts == {"transcript 1", "transcript 2"}
StoreSummaries == {"summary 1", "summary 2"}

\* hashlib.sha256(text.encode("utf-8")).hexdigest(): distinct texts have
\* distinct digests
compute_hash(text) == <<"sha256", text>>

NoCallYet == [pc |-> "idle", n |-> 0]

\* the rows whose hash is h
RowsWithHash(rows, h) == {i \in 1..Len(rows) : rows[i].hash = h}

\* insert_one under the unique index of lines 56-57, and INSERT into the
\* table whose message_hash is UNIQUE (line 26): a second row with the hash
\* of a stored row is refused, otherwise the row is added under a new id
insert(rows, text, summary) ==
    IF RowsWithHash(rows, compute_hash(text)) # {}
    THEN [error |-> "duplicate", rows |-> rows]
    ELSE [error |-> "none",
          rows |-> Append(rows, [id |-> Len(rows) + 1, text |-> text,
                                 summary |-> summary, hash |-> compute_hash(text)])]

\* what store_result returns: None, or the id of the inserted record
ReturnedNone == [none |-> TRUE, id |-> 0]
ReturnedId(n) == [none |-> FALSE, id |-> n]

\* agents_audio.py 104: doc_id or "duplicate"
store_call_result(doc_id) == IF doc_id.none THEN "duplicate" ELSE ToString(doc_id.id)

StoreInit ==
    /\ db_kind \in {"mongo", "sqlite"}
    /\ db_rows = <<>>
    /\ db_calls = [p \in StoreCallers |-> NoCallYet]

\* a caller calls store_result(text, summary, ...)
StoreCall(p) ==
    /\ UNCHANGED <<scoreVars, runVars, poolVars, chatVars>>
    /\ db_calls[p].pc \in {"idle", "done"}
    /\ db_calls[p].n < MaxStoreCalls
    /\ \E text \in StoreTexts, summary \in StoreSummaries :
          db_calls' = [db_calls EXCEPT ![p] =
                          [pc |-> "called", n |-> db_calls[p].n + 1,
                           text |-> text, summary |-> summary]]
    /\ UNCHANGED <<db_kind, db_rows>>

\* backend db_connector.py 99-103: insert_one, and None on DuplicateKeyError
MongoInsertOne(p) ==
    /\ UNCHANGED <<scoreVars, runVars, poolVars, chatVars>>
    /\ db_kind = "mongo"
    /\ db_calls[p].pc = "called"
    /\ LET c == db_calls[p]
           r == insert(db_rows, c.text, c.summary)
       IN  /\ db_rows' = r.rows
           /\ db_calls' = [db_calls EXCEPT ![p] =
                  [c EXCEPT !.pc = "done"] @@
                  [outcome |-> "returned",
                   value |-> IF r.error = "duplicate" THEN ReturnedNone
                             ELSE ReturnedId(Len(r.rows))]]
    /\ UNCHANGED db_kind

\* image db_connector.py 54-58: the SELECT of the hash; None when a row
\* is found
SqliteSelect(p) ==
    /\ UNCHANGED <<scoreVars, runVars, poolVars, chatVars>>
    /\ db_kind = "sqlite"
    /\ db_calls[p].pc = "called"
    /\ LET c == db_calls[p]
       IN  IF RowsWithHash(db_rows, compute_hash(c.text)) # {}
           THEN db_calls' = [db_calls EXCEPT ![p] =
                    [c EXCEPT !.pc = "done"] @@
                    [outcome |-> "returned", value |-> ReturnedNone]]
           ELSE db_calls' = [db_calls EXCEPT ![p] = [c EXCEPT !.pc = "selected"]]
    /\ UNCHANGED <<db_kind, db_rows>>

\* image db_connector.py 60-64: the INSERT; the UNIQUE column raises
\* sqlite3.IntegrityError, which store_result does not catch
SqliteInsert(p) ==
    /\ UNCHANGED <<scoreVars, runVars, poolVars, chatVars>>
    /\ db_kind = "sqlite"
    /\ db_calls[p].pc = "selected"
    /\ LET c == db_calls[p]
           r == insert(db_rows, c.text, c.summary)
       IN  /\ db_rows' = r.rows
           /\ db_calls' = [db_calls EXCEPT ![p] =
                  [c EXCEPT !.pc = "done"] @@
                  (IF r.error = "duplicate"
                   THEN [outcome |-> "raised", value |-> ReturnedNone]
                   ELSE [outcome |-> "returned", value |-> ReturnedId(Len(r.rows))])]
    /\ UNCHANGED db_kind

StoreNext ==
    \/ \E p \in StoreCallers : StoreCall(p)
    \/ \E p \in StoreCallers : MongoInsertOne(p)
    \/ \E p \in StoreCallers : SqliteSelect(p)
    \/ \E p \in StoreCallers : SqliteInsert(p)

InitStore == StoreInit /\ NoCall /\ RunIdle /\ PoolIdle /\ ChatIdle

SpecStore == InitStore /\ [][StoreNext]_vars

-----------------------------------------------------------------------------
(* Properties of the scorer.                                               *)

\* the score of the scoring formula, from the number of matches of each
\* category and the number of high-severity phrases: twice the sum S, halved
\* and rounded down, at most 100
CategoryHalves(n) == IF n = 0 THEN 0 ELSE IF n = 1 THEN 25 ELSE 50
FormulaScore(nf, na, nu, nn, h) ==
    LET cats == Cardinality({i \in 1..4 : <<nf, na, nu, nn>>[i] >= 1})
        twiceS == CategoryHalves(nf) + CategoryHalves(na) + CategoryHalves(nu)
                  + CategoryHalves(nn)
                  + (IF cats >= 2 THEN 20 ELSE 0)
                  + (IF h = 0 THEN 0 ELSE IF h = 1 THEN 30 ELSE 60)
        floorS == CHOOSE k \in 0..200 : 2 * k <= twiceS /\ twiceS < 2 * (k + 1)
    IN  IF floorS > 100 THEN 100 ELSE floorS

\* C1: _compute_score returns min(100, floor(S)), S the sum of 25*min(n,2)/2
\* over the four categories plus 10 when two or more categories matched plus
\* 15*min(high_sev,2); the result is an integer in 0..100.
C1_ComputeScoreFormula ==
    (call.op = "_compute_score" /\ ret.done) =>
        /\ ret.value = FormulaScore(Len(call.fear), Len(call.authority),
                                    Len(call.urgency), Len(call.financial),
                                    call.high_sev)
        /\ ret.value \in 0..100

\* one fear match (half weight), three authority matches and three
\* high-severity phrases (both capped): 12.5 + 25 + 10 + 30 = 77.5 -> 77
C1_Witness ==
    /\ call.op = "_compute_score" /\ ret.done
    /\ Len(call.fear) = 1 /\ Len(call.authority) = 3
    /\ Len(call.urgency) = 0 /\ Len(call.financial) = 0
    /\ call.high_sev = 3
    /\ ret.value = 77

\* C2: the threat_score analyze_text returns equals the scoring formula
\* applied to the four returned evidence sets and the returned
\* high_severity_count.
C2_ScoreReproducible ==
    (call.op = "analyze_text" /\ ret.done) =>
        ret.value.threat_score =
            FormulaScore(Cardinality(ret.value.fear_indicators),
                         Cardinality(ret.value.authority_impersonation),
                         Cardinality(ret.value.urgency_signals),
                         Cardinality(ret.value.financial_pressure),
                         ret.value.high_severity_count)

\* C3: get_threat_level returns CRITICAL iff s >= 75, HIGH_RISK iff
\* 50 <= s < 75, SUSPICIOUS iff 25 <= s < 50, SAFE iff s < 25, for every
\* integer s, in and out of 0..100.
C3_ThreatLevelBands ==
    (call.op = "get_threat_level" /\ ret.done) =>
        LET s == call.threat_score
        IN  /\ ret.value \in {"SAFE", "SUSPICIOUS", "HIGH_RISK", "CRITICAL"}
            /\ (ret.value = "CRITICAL") <=> (s >= 75)
            /\ (ret.value = "HIGH_RISK") <=> (50 <= s /\ s < 75)
            /\ (ret.value = "SUSPICIOUS") <=> (25 <= s /\ s < 50)
            /\ (ret.value = "SAFE") <=> (s < 25)

\* the boundary 75 is CRITICAL
C3_Witness ==
    /\ call.op = "get_threat_level" /\ ret.done
    /\ call.threat_score = 75
    /\ ret.value = "CRITICAL"

-----------------------------------------------------------------------------
(* Properties of the aggregation loop of analyze_call.                     *)

\* the agents that streamed a text that was kept, the place of an agent's
\* first such event among the agents, and its last such text
StreamedAgents == {streamed[i].source : i \in 1..Len(streamed)}
FirstIndex(s) == CHOOSE i \in 1..Len(streamed) :
                    /\ streamed[i].source = s
                    /\ \A j \in 1..(i - 1) : streamed[j].source # s
LastIndex(s) == CHOOSE i \in 1..Len(streamed) :
                    /\ streamed[i].source = s
                    /\ \A j \in (i + 1)..Len(streamed) : streamed[j].source # s
Rank(s) == Cardinality({a \in StreamedAgents : FirstIndex(a) <= FirstIndex(s)})
EntriesOf(log, s) == {i \in 1..Len(log) : log[i].source = s}

\* C4: while only streamed events have been ingested, the message list holds
\* exactly one entry per agent that streamed a non-empty text, with the
\* agent's most recent text, at the position of the agent's first emission.
C4_LatestWinsInPlace ==
    ~final_seen =>
        /\ Len(messages) = Cardinality(StreamedAgents)
        /\ \A s \in StreamedAgents :
              /\ EntriesOf(messages, s) = {Rank(s)}
              /\ messages[Rank(s)].content = streamed[LastIndex(s)].content

\* 'partial' from one agent, a text from another, then 'final' from the first
C4_Witness ==
    /\ ~final_seen
    /\ streamed = <<Label("Speech_Agent", "partial"),
                    Label("Decision_Agent", "partial"),
                    Label("Speech_Agent", "final")>>
    /\ messages = <<Label("Speech_Agent", "final"),
                    Label("Decision_Agent", "partial")>>

\* C5: right after a TaskResult is ingested, every agent with a usable text
\* in it has exactly one entry, holding the record's last text for that
\* agent, in the message list and in the combined log, whatever was streamed
\* before.
C5_FinalRecordOverrides ==
    last_kind = "TaskResult" =>
        \A s \in DOMAIN final_content :
            /\ \E i \in 1..Len(messages) :
                  /\ EntriesOf(messages, s) = {i}
                  /\ messages[i].content = final_content[s]
            /\ \E i \in 1..Len(full_log) :
                  /\ EntriesOf(full_log, s) = {i}
                  /\ full_log[i].content = final_content[s]

\* a partial of one agent, then a partial of another, then the final record
\* with a text for the first
C5_Witness ==
    /\ last_kind = "TaskResult"
    /\ streamed = <<Label("Speech_Agent", "partial"),
                    Label("Decision_Agent", "partial")>>
    /\ final_content = ("Speech_Agent" :> "final")
    /\ Label("Speech_Agent", "final") \in Range(messages)

\* C6: once a TaskResult has been ingested, the text it set for an agent
\* stays in the message list and in the combined log, whatever is streamed
\* afterwards.
C6_FinalNeverShadowed ==
    final_seen =>
        \A s \in DOMAIN final_content :
            /\ Label(s, final_content[s]) \in Range(messages)
            /\ Label(s, final_content[s]) \in Range(full_log)

\* C7: a verdict card is shown only when the stream closed without error
\* after at least one event was ingested; a stream that closes with nothing
\* ingested ends in the 'no agent responses' failure and a stream that raises
\* ends in the error display.
C7_NoDataIsFailure ==
    pc = "done" =>
        /\ shown.kind = "verdict" =>
              (ended = "closed" /\ (streamed # <<>> \/ final_seen))
        /\ (ended = "closed" /\ streamed = <<>> /\ ~final_seen) =>
              shown.kind = "no_responses"
        /\ ended \in {"raised", "index_error"} => shown.kind = "error"

\* the stream closed after events that were all dropped
C7_Witness ==
    /\ pc = "done"
    /\ ended = "closed"
    /\ n_events >= 1
    /\ streamed = <<>>
    /\ ~final_seen
    /\ shown.kind = "no_responses"

-----------------------------------------------------------------------------
(* Properties of extract_final_verdict.                                    *)

ExampleBlock ==
    <<"F","I","N","A","L","_","V","E","R","D","I","C","T",":","\n","-"," ","T","h","r","e","a","t"," ","L","e","v","e","l",":"," ","*","*","H","I","G","H","_","R","I","S","K","*","*","\n","-"," ","T","h","r","e","a","t"," ","S","c","o","r","e",":"," ","6","2","\n","-"," ","S","u","m","m","a","r","y",":"," ","L","i","k","e","l","y"," ","s","c","a","m",".","\n","-"," ","C","a","l","l","e","r"," ","T","y","p","e",":"," ","S","c","a","m","m","e","r","\n","-"," ","R","e","c","o","m","m","e","n","d","a","t","i","o","n",":"," ","H","a","n","g"," ","u","p",".","\n","D","E","C","I","S","I","O","N","_","D","O","N","E">>
ExampleVerdict ==
    [threat_level |-> L_HIGH_RISK,
     threat_score |-> 62,
     summary |-> <<"L","i","k","e","l","y"," ","s","c","a","m",".">>,
     caller_type |-> <<"S","c","a","m","m","e","r">>,
     recommendation |-> <<"H","a","n","g"," ","u","p",".">>]

CanonicalLevels == {L_SAFE, L_SUSPICIOUS, L_HIGH_RISK, L_CRITICAL}
HighRiskSpellings == {<<"H","I","G","H","_","R","I","S","K">>, <<"H","I","G","H"," ","R","I","S","K">>, <<"h","i","g","h","_","r","i","s","k">>, <<"H","i","g","h"," ","R","i","s","k">>}
CriticalSpellings == {<<"C","R","I","T","I","C","A","L">>, <<"c","r","i","t","i","c","a","l">>}

\* C8: the well-formed block FINAL_VERDICT / Threat Level: **HIGH_RISK** /
\* Threat Score: 62 / Summary / Caller Type / Recommendation / DECISION_DONE
\* yields level HIGH_RISK, score 62, 'Likely scam.', 'Scammer', 'Hang up.';
\* and a labelled level written in its canonical form is returned unchanged.
C8_WellFormedBlock ==
    (call.op = "extract_final_verdict" /\ ret.done) =>
        /\ call.log_text = ExampleBlock => ret.value = ExampleVerdict
        /\ call.parts.name \in CanonicalLevels =>
               ret.value.threat_level = call.parts.name

\* C9: a labelled level is recognised whatever its letter case, the
\* punctuation between label and value and the joiner of its two words: every
\* spelling of HIGH_RISK yields HIGH_RISK (and of CRITICAL, CRITICAL), and
\* every extracted level is SAFE, SUSPICIOUS, HIGH_RISK, CRITICAL or UNKNOWN.
C9_LevelSpellings ==
    (call.op = "extract_final_verdict" /\ ret.done) =>
        /\ call.parts.name \in HighRiskSpellings =>
               ret.value.threat_level = L_HIGH_RISK
        /\ call.parts.name \in CriticalSpellings =>
               ret.value.threat_level = L_CRITICAL
        /\ ret.value.threat_level \in CanonicalLevels \cup {L_UNKNOWN}

\* the content of the terminal stage of a log, the stage that comes last
TerminalContent(l) == l[Len(l)].content

\* C10: the verdict depends only on the content of the terminal stage: every
\* log with the same terminal content as this run's log yields the verdict
\* this run returned, whatever the earlier stages hold.
C10_TerminalStageOnly ==
    (call.op = "extract_final_verdict" /\ ret.done /\ call.log # <<>>) =>
        \A l \in VerdictLogs :
            TerminalContent(l) = TerminalContent(call.log) =>
                extract_final_verdict(LogText(l)) = ret.value

-----------------------------------------------------------------------------
(* Properties of AlertSystem.escalate.                                     *)

TableLevels == {"SAFE", "SUSPICIOUS", "HIGH_RISK", "CRITICAL"}

\* the level a level string is handled as
HandledAs(l) == IF l \in TableLevels THEN l ELSE "SUSPICIOUS"

\* C11: escalate notifies nobody for SAFE and for SUSPICIOUS, the family only
\* for HIGH_RISK, the family and the police for CRITICAL, with the message of
\* the level; a string that is none of the four levels is handled as
\* SUSPICIOUS: nobody notified, the SUSPICIOUS advisory message.
C11_EscalationTable ==
    (call.op = "escalate" /\ ret.done) =>
        LET l == HandledAs(call.threat_level)
        IN  /\ (ret.value.family # "none") <=> (l \in {"HIGH_RISK", "CRITICAL"})
            /\ (ret.value.police # "none") <=> (l = "CRITICAL")
            /\ ret.value.message =
                   (CASE l = "SAFE" -> MSG_SAFE
                      [] l = "SUSPICIOUS" -> MSG_SUSPICIOUS
                      [] l = "HIGH_RISK" -> MSG_HIGH_RISK
                      [] l = "CRITICAL" -> MSG_CRITICAL)
            /\ (l \in {"SAFE", "SUSPICIOUS"}) =>
                   ret.value.actions = <<[action |-> "none"]>>

\* the level HIGHRISK, which is not in the table, with a working e-mail
\* service: nobody is notified and the advisory message is returned
C11_Witness ==
    /\ call.op = "escalate" /\ ret.done
    /\ call.threat_level = "HIGHRISK"
    /\ call.email_service /\ call.family_emails > 0 /\ call.family_send = "ok"
    /\ ret.value.family = "none" /\ ret.value.police = "none"
    /\ ret.value.message = MSG_SUSPICIOUS

-----------------------------------------------------------------------------
(* Properties of _find_matches and of analyze_text.                        *)

\* a character that is part of a word: a letter, a digit, the underscore or
\* a vowel sign
WordConstituent(c) ==
    c \in Range(UpperLetters) \cup Range(LowerLetters) \cup Range(Digits) \cup {"_"}
           \cup KannadaLetters \cup KannadaSigns

\* kw occurs in t, in any letter case, with no character of a word right
\* before it and none right after it
Standalone(t, kw) ==
    \E i \in 1..(Len(t) - Len(kw) + 1) :
        /\ MatchAt(Lower(t), Lower(kw), i)
        /\ i = 1 \/ ~WordConstituent(t[i - 1])
        /\ i + Len(kw) > Len(t) \/ ~WordConstituent(t[i + Len(kw)])

\* C12: _find_matches reports a keyword of at most 5 characters exactly when
\* it occurs as a standalone word (a word boundary on both sides), a longer
\* keyword exactly when it occurs as a substring, both whatever the letter
\* case, and what it reports is the keyword as the lexicon writes it.
C12_ShortKeywordsAreWords ==
    (call.op = "_find_matches" /\ ret.done) =>
        /\ \A k \in 1..Len(call.keywords) :
              LET kw == call.keywords[k]
              IN  (kw \in Range(ret.value)) <=>
                      (IF Len(Lower(kw)) <= 5
                       THEN Standalone(call.text, kw)
                       ELSE Contains(Lower(call.text), Lower(kw)))
        /\ Range(ret.value) \subseteq Range(call.keywords)

ZeroResult ==
    [fear_indicators |-> {}, authority_impersonation |-> {},
     urgency_signals |-> {}, financial_pressure |-> {},
     threat_score |-> 0, high_severity_count |-> 0]

\* C13: analyze_text of the empty string, of None or of any other value that
\* is not a string returns the zero result: four empty evidence lists,
\* threat_score 0 and high_severity_count 0.
C13_ZeroResultForNoText ==
    (call.op = "analyze_text" /\ ret.done /\ (~call.is_str \/ call.text = <<>>)) =>
        ret.value = ZeroResult

\* a value that is not a string and holds the characters of 'police'
C13_Witness ==
    /\ call.op = "analyze_text" /\ ret.done
    /\ ~call.is_str /\ call.text = S_police
    /\ ret.value = ZeroResult

\* the tags '[Language: xx]' that transcripts start with
LanguageTags == {F_tag, F_tag_line}

\* C14: analyze_text of '[Language: xx]' followed by T returns what
\* analyze_text of T returns: the same evidence sets, high_severity_count and
\* threat_score.
C14_TagHasNoEffect ==
    (call.op = "analyze_text" /\ call.is_str /\ ret.done) =>
        \A tag \in LanguageTags :
            MatchAt(call.text, tag, 1) =>
                ret.value = analyze_text([is_str |-> TRUE,
                                          text |-> SubSeq(call.text, Len(tag) + 1,
                                                          Len(call.text))])

\* the tag with the code 'fir' before 'police': 'police' is the only match
C14_Witness ==
    /\ call.op = "analyze_text" /\ call.is_str /\ ret.done
    /\ call.text = F_tag_line \o S_police
    /\ ret.value.fear_indicators = {S_police}

\* what analyze_text returns for the text t
ResultOf(t) == analyze_text([is_str |-> TRUE, text |-> t])

\* kw is one of the matches analyze_text reports for t
MatchedIn(t, kw) ==
    LET r == ResultOf(t)
    IN  kw \in r.fear_indicators \cup r.authority_impersonation
                \cup r.urgency_signals \cup r.financial_pressure

EndsWith(x, k) == Len(x) >= Len(k) /\ MatchAt(x, k, Len(x) - Len(k) + 1)
Before(x, k) == SubSeq(x, 1, Len(x) - Len(k))

\* the keywords an occurrence of which is added to a text
AddedKeywords == {S_arrest, S_police, S_fir, S_trai, S_emergency, S_lakh,
                  S_takshana, S_remain_on_this_call, S_khaate}

\* a high-severity phrase p added after a space to a text that did not hold
\* it and held fewer than two such phrases does not lower the score
PhraseNeverLowers(x, result) ==
    \A p \in Range(HIGH_SEVERITY_PHRASES) :
        (/\ EndsWith(x, <<" ">> \o p)
         /\ ~Contains(Lower(Before(x, p)), p)
         /\ ResultOf(Before(x, p)).high_severity_count < 2) =>
            result.threat_score >= ResultOf(Before(x, p)).threat_score

CategoryKeywords ==
    Range(FEAR_KEYWORDS_EN \o FEAR_KEYWORDS_HI
          \o FEAR_KEYWORDS_KN \o FEAR_KEYWORDS_KN_UNICODE)
    \cup Range(AUTHORITY_KEYWORDS_EN \o AUTHORITY_KEYWORDS_HI
               \o AUTHORITY_KEYWORDS_KN \o AUTHORITY_KEYWORDS_KN_UNICODE)
    \cup Range(URGENCY_KEYWORDS_EN \o URGENCY_KEYWORDS_HI
               \o URGENCY_KEYWORDS_KN \o URGENCY_KEYWORDS_KN_UNICODE)
    \cup Range(FINANCIAL_KEYWORDS_EN \o FINANCIAL_KEYWORDS_HI
               \o FINANCIAL_KEYWORDS_KN \o FINANCIAL_KEYWORDS_KN_UNICODE)

\* the text holds no keyword and no phrase, in any case of the letters
Harmless(text) ==
    \A kw \in CategoryKeywords \cup Range(HIGH_SEVERITY_PHRASES) :
        ~Contains(Lower(text), Lower(kw))

\* the number of categories with at least one match in a result
CategoriesMatched(r) ==
    Cardinality({i \in 1..4 :
        <<r.fear_indicators, r.authority_impersonation,
          r.urgency_signals, r.financial_pressure>>[i] # {}})

\* the two cases on the transcripts given to analyze_text
C16_Transcripts ==
    (call.op = "analyze_text" /\ call.is_str /\ ret.done) =>
        /\ Harmless(call.text) =>
              /\ ret.value.threat_score = 0
              /\ get_threat_level(ret.value.threat_score) = "SAFE"
        /\ (CategoriesMatched(ret.value) >= 3 /\ ret.value.high_severity_count >= 1) =>
              /\ ret.value.threat_score >= 50
              /\ get_threat_level(ret.value.threat_score) \in {"HIGH_RISK", "CRITICAL"}

\* C16: a transcript with no category keyword and no high-severity phrase
\* gets threat_score 0 and level SAFE; a transcript that matches keywords of
\* at least three categories and a high-severity phrase gets threat_score
\* >= 50 and level HIGH_RISK or CRITICAL.
C16_SafeAndHighRisk ==
    /\ (call.op = "_compute_score" /\ ret.done) =>
          /\ (call.fear = <<>> /\ call.authority = <<>> /\ call.urgency = <<>>
                /\ call.financial = <<>> /\ call.high_sev = 0) =>
                    ret.value = 0 /\ get_threat_level(ret.value) = "SAFE"
          /\ (Cardinality({i \in 1..4 :
                    <<call.fear, call.authority, call.urgency, call.financial>>[i]
                        # <<>>}) >= 3 /\ call.high_sev >= 1) =>
                    /\ ret.value >= 50
                    /\ get_threat_level(ret.value) \in {"HIGH_RISK", "CRITICAL"}
    /\ C16_Transcripts

\* 'trai remain on this call' matches authority (in two lists), fear and
\* urgency and one phrase: 25 + 12.5 + 12.5 + 10 + 15 = 75, CRITICAL
C16_Witness ==
    /\ call.op = "analyze_text" /\ call.is_str /\ ret.done
    /\ call.text = F_trai \o F_space \o F_remain
    /\ CategoriesMatched(ret.value) = 3
    /\ ret.value.high_severity_count = 1
    /\ ret.value.threat_score = 75
    /\ ResultOf(F_m \o F_space \o F_m).threat_score = 0
    /\ Harmless(F_m \o F_space \o F_m)

\* the place of the first entry of agent s in a list of labels
PlaceOf(log, s) == CHOOSE i \in EntriesOf(log, s) : \A j \in EntriesOf(log, s) : i <= j

\* C17: at every point of a run the agents listed in the message list stand
\* in the order of their first emission in the run; the final record, once
\* ingested, leaves the relative order of the agents already listed as it was.
C17_FirstEmissionOrder ==
    \A a \in StreamedAgents, b \in StreamedAgents :
        (/\ EntriesOf(messages, a) # {}
         /\ EntriesOf(messages, b) # {}
         /\ FirstIndex(a) < FirstIndex(b)) =>
            PlaceOf(messages, a) < PlaceOf(messages, b)

\* the event or message is not one of an agent's texts: its source is not
\* one of the four names, or its content is empty or not a string
NotAgentText(source, content, is_str) ==
    \/ source \notin {"Speech_Agent", "Reasoning_Agent", "Decision_Agent", "Action_Agent"}
    \/ content = ""
    \/ ~is_str

\* a streamed event that is not an agent's text changes nothing
StreamedDropLeavesLists ==
    \A source \in Sources, content \in Texts \cup {""}, is_str \in BOOLEAN :
        /\ (NotAgentText(source, content, TRUE)
              /\ Streamed("TextMessage", source, content)) =>
                 UNCHANGED <<listVars, shown, pc, ended>>
        /\ (NotAgentText(source, content, is_str)
              /\ Streamed("Response", source, IF is_str THEN content ELSE "")) =>
                 UNCHANGED <<listVars, shown, pc, ended>>

\* a message of the final record that is not an agent's text changes nothing
RecordDropLeavesLists ==
    \A s \in Sources, c \in Texts \cup {""}, is_str \in BOOLEAN :
        (NotAgentText(s, c, is_str) /\ RecordMessage(s, c, is_str)) =>
            UNCHANGED <<listVars, finalVars, shown, pc, ended>>

\* C18: a streamed event whose source is not a recognized agent, or whose
\* content is empty or not text, is dropped without error and leaves the
\* message list, the per-agent index and the combined log unchanged; so does
\* such a message inside a final record.
C18_DroppedEventsChangeNothing ==
    [][StreamedDropLeavesLists /\ RecordDropLeavesLists]_vars

\* two events were taken from the stream and one was kept, and later a
\* record of two messages of which one was kept is being read
C18_Witness ==
    /\ pc = "final_loop"
    /\ n_events = 3
    /\ Len(streamed) = 1
    /\ messages = <<streamed[1]>>
    /\ rec_len = 2
    /\ Len(final_messages) = 1
    /\ ended = "no"

\* agent s has an entry in the message list and holds the text c there
HoldsAlready(s, c) ==
    /\ EntriesOf(messages, s) # {}
    /\ \A i \in EntriesOf(messages, s) : messages[i].content = c

\* C19: ingesting for an agent a streamed event whose content equals the
\* content the agent's entry already holds changes neither the message list
\* (entries and order) nor the combined log, at any point of a run, before or
\* after a final record.
C19_RepeatIsNoOp ==
    [][\A s \in KNOWN_AGENTS, c \in Texts, kind \in {"TextMessage", "Response"} :
          (HoldsAlready(s, c) /\ Streamed(kind, s, c)) =>
              /\ UNCHANGED <<messages, full_log>>
              /\ ended' = ended]_vars

\* every label of the list carries the text of call r's own stream
OwnLabels(log, r) == \A i \in 1..Len(log) : log[i].content = RunText(r)

\* C20: the lists of a call start empty and hold only what the call's own
\* stream delivered: no label of another call appears in the snapshots or in
\* the log the verdict is extracted from, whether the calls run one after
\* the other or interleaved on the shared team.
C20_NoLeakAcrossRuns ==
    \A r \in Runs :
        /\ (run_pc[r] = "await" /\ run_events[r] = 0) => frames[r] = EmptyFrame
        /\ run_shown[r].kind \in {"analyzing", "verdict", "error"} =>
              /\ OwnLabels(run_shown[r].pipeline, r)
              /\ Len(run_shown[r].pipeline) <= run_events[r]
        /\ run_shown[r].kind = "verdict" => OwnLabels(run_shown[r].full_log, r)

\* two calls are in progress at once on the shared team, each has shown its
\* own label, and a third call has ended with a verdict before
C20_Witness ==
    /\ team.running = {1, 2}
    /\ run_shown[1].kind = "analyzing" /\ run_shown[1].pipeline # <<>>
    /\ run_shown[2].kind = "analyzing" /\ run_shown[2].pipeline # <<>>
    /\ run_shown[3].kind = "verdict" /\ run_shown[3].pipeline # <<>>

\* the values the lines of VerdictLines give to the fields
X_likely_scam == <<"L","i","k","e","l","y"," ","s","c","a","m",".">>
X_scammer == <<"S","c","a","m","m","e","r">>
X_hang_up == <<"H","a","n","g"," ","u","p",".">>

\* the words without which a field cannot be found
LevelWords == {P_safe, P_suspicious, P_critical, P_high}

\* the verdict has its five fields, each of its kind
IsVerdict(v) ==
    /\ DOMAIN v = {"threat_level", "threat_score", "summary", "caller_type",
                   "recommendation"}
    /\ v.threat_score \in Nat
    /\ v.threat_level # <<>>
    /\ v.threat_level \in Seq({v.threat_level[i] : i \in 1..Len(v.threat_level)})
    /\ v.summary \in Seq({v.summary[i] : i \in 1..Len(v.summary)})
    /\ v.caller_type \in Seq({v.caller_type[i] : i \in 1..Len(v.caller_type)})
    /\ v.recommendation \in Seq({v.recommendation[i] : i \in 1..Len(v.recommendation)})

\* a field whose label occurs nowhere in the text keeps its default
DefaultsKept(text, v) ==
    LET low == Lower(text)
    IN  /\ (\A w \in LevelWords : ~Contains(low, w)) => v.threat_level = L_UNKNOWN
        /\ ~Contains(low, P_score) => v.threat_score = 0
        /\ ~Contains(low, P_summary) => v.summary = <<>>
        /\ ~Contains(low, P_caller) => v.caller_type = L_Unknown
        /\ ~Contains(low, P_recommendation) => v.recommendation = <<>>

\* the verdict of the block of the five labelled lines
CompleteVerdict ==
    extract_final_verdict(VL_level \o VL_score \o VL_summary \o VL_caller
                          \o VL_recommendation)

\* the labelled lines that a text without an opening marker holds are
\* extracted, whichever of the other lines are missing (the caller type
\* with its own text when no other line names its label)
PresentExtracted(ls, v) ==
    LET has(l) == \E i \in 1..Len(ls) : ls[i] = l
    IN  /\ (has(VL_level) /\ ~has(VL_level_safe)) =>
              /\ v.threat_level # L_UNKNOWN
              /\ v.threat_level = CompleteVerdict.threat_level
        /\ has(VL_score) => v.threat_score = 62
        /\ has(VL_summary) => MatchAt(v.summary, X_likely_scam, 1)
        /\ has(VL_caller) =>
              /\ v.caller_type # L_Unknown
              /\ ~has(VL_summary_caller) => MatchAt(v.caller_type, X_scammer, 1)
        /\ has(VL_recommendation) => MatchAt(v.recommendation, X_hang_up, 1)

\* C21: extract_final_verdict returns a verdict for every text; a field
\* that cannot be found keeps its default, and the fields that a partial or
\* malformed block holds are extracted.
C21_BestEffortVerdict ==
    (call.op = "extract_final_verdict" /\ ret.done) =>
        /\ IsVerdict(ret.value)
        /\ DefaultsKept(call.log_text, ret.value)
        /\ (call.lines # <<>> /\ \A i \in 1..Len(call.lines) : call.lines[i] # V_marker) =>
              PresentExtracted(call.lines, ret.value)

\* a block of two lines only: the score and the summary are extracted, the
\* level, the caller type and the recommendation keep their defaults
C21_Witness ==
    /\ call.op = "extract_final_verdict" /\ ret.done
    /\ call.lines = <<VL_score, VL_summary>>
    /\ ret.value = [threat_level |-> L_UNKNOWN, threat_score |-> 62,
                    summary |-> X_likely_scam, caller_type |-> L_Unknown,
                    recommendation |-> <<>>]

\* C22: right after a TaskResult is ingested, an agent that streamed a text
\* earlier in the run and has no usable message in the record still has its
\* entry in the message list, with the text it streamed last.
C22_OnlyRecordAgentsChange ==
    last_kind = "TaskResult" =>
        \A s \in StreamedAgents \ DOMAIN final_content :
            \E i \in EntriesOf(messages, s) :
                messages[i].content = streamed[LastIndex(s)].content

\* the first of the lines of ls that is one of the lines of ks, <<>> when
\* there is none
FirstOf(ls, ks) ==
    LET at == {i \in 1..Len(ls) : ls[i] \in ks}
    IN  IF at = {} THEN <<>> ELSE ls[Least(at)]

\* the level of a text without an opening marker, written of its lines: the
\* level of its first labelled level line; without one, the most severe of
\* the levels its sentences mention
LevelOfLines(ls) ==
    LET labelled == FirstOf(ls, {VL_level, VL_level_safe})
        has(l) == \E i \in 1..Len(ls) : ls[i] = l
    IN  IF labelled = VL_level THEN L_SUSPICIOUS
        ELSE IF labelled = VL_level_safe THEN L_SAFE
        ELSE IF has(VL_mention_critical) THEN L_CRITICAL
        ELSE IF has(VL_mention_high) THEN L_HIGH_RISK
        ELSE IF has(VL_mention_suspicious) THEN L_SUSPICIOUS
        ELSE IF has(VL_mention_safe) THEN L_SAFE
        ELSE L_UNKNOWN

\* C23: a labelled level wins over every level keyword mentioned elsewhere
\* in the block; without a labelled level the most severe of the level
\* keywords that occur is returned, in the order CRITICAL, HIGH_RISK,
\* SUSPICIOUS, SAFE.
C23_LabelledLevelWins ==
    (/\ call.op = "extract_final_verdict" /\ ret.done
     /\ call.lines # <<>>
     /\ \A i \in 1..Len(call.lines) : call.lines[i] # V_marker) =>
        ret.value.threat_level = LevelOfLines(call.lines)

\* the sentence that mentions CRITICAL comes before the labelled level SAFE:
\* the level is SAFE
C23_Witness ==
    /\ call.op = "extract_final_verdict" /\ ret.done
    /\ call.lines = <<VL_mention_critical, VL_mention_safe, VL_level_safe>>
    /\ ret.value.threat_level = L_SAFE
    /\ extract_final_verdict(VL_mention_safe \o VL_mention_high
                             \o VL_mention_critical).threat_level = L_CRITICAL

\* a returned call on a text without an opening marker, given by its lines
LinesReturned ==
    /\ call.op = "extract_final_verdict" /\ ret.done
    /\ call.lines # <<>>
    /\ \A i \in 1..Len(call.lines) : call.lines[i] # V_marker

\* the score of such a text as lines 86-90 compute it: the integer of the
\* first 'Threat Score' label that an integer follows; without one, the
\* integer of the first bare 'score' label, whether or not '/100' follows it
ScoreOfLines(ls) ==
    IF FirstOf(ls, {VL_score}) # <<>> THEN 62
    ELSE IF FirstOf(ls, {VL_bare_score}) # <<>> THEN 40
    ELSE 0

\* the same with 'N/100' as a pattern of its own next to the bare label
ScoreOfLinesWithRatio(ls) ==
    IF FirstOf(ls, {VL_score}) # <<>> THEN 62
    ELSE IF FirstOf(ls, {VL_bare_score, VL_ratio}) = VL_bare_score THEN 40
    ELSE IF FirstOf(ls, {VL_bare_score, VL_ratio}) = VL_ratio THEN 85
    ELSE 0

\* C24 as stated: the score is the integer after a 'Threat Score' label;
\* otherwise the integer of the first bare 'score: N' or of the first
\* 'N/100' pattern; otherwise 0.
C24_ScoreWithRatioPattern ==
    LinesReturned => ret.value.threat_score = ScoreOfLinesWithRatio(call.lines)

\* C24: the score is the integer after a 'Threat Score' label; otherwise
\* the integer after the first bare 'score' label, with or without '/100'
\* behind it; otherwise 0. An 'N/100' without a score label is not read. The
\* first strategy that matches wins.
C24_FirstScoreStrategyWins ==
    LinesReturned => ret.value.threat_score = ScoreOfLines(call.lines)

\* a bare score comes before the full label, and a label without an integer
\* before both: the full label's integer is returned
C24_Witness ==
    /\ LinesReturned
    /\ call.lines = <<VL_score_word, VL_bare_score, VL_score>>
    /\ ret.value.threat_score = 62
    /\ extract_final_verdict(VL_ratio \o VL_bare_score).threat_score = 40

\* the value of the field of the labelled line l of ls, whose own text is
\* x: x and the lines behind it up to the next bulleted line, the end marker
\* or the end, without the decorative characters and the outer blanks
OwnText(ls, l, x) ==
    LET i == Least({k \in 1..Len(ls) : ls[k] = l})
        ends == {k \in (i + 1)..Len(ls) : ls[k] \in FieldLines \cup {V_done}}
        j == IF ends = {} THEN Len(ls) + 1 ELSE Least(ends)
    IN  strip_md(x \o <<"\n">> \o Flatten(SubSeq(ls, i + 1, j - 1)))

\* the line behind the first line l of ls is a bulleted field, the end
\* marker or the end of the text
FieldFollows(ls, l) ==
    LET i == Least({k \in 1..Len(ls) : ls[k] = l})
    IN  i = Len(ls) \/ ls[i + 1] \in FieldLines \cup {V_done}

\* the call is on the five labelled lines in some order, with or without
\* the markers around them
FieldOrderReturned ==
    /\ call.op = "extract_final_verdict" /\ ret.done
    /\ Len(call.lines) = 7
    /\ {call.lines[i] : i \in 2..6} = FieldLines

\* summary, caller type and recommendation of a text given by its lines are
\* each the text behind their own label up to the next bulleted field, the
\* end marker or the end of the text, without the decorative characters; a
\* field followed by a bulleted field holds its own text only
FieldsOwnText ==
    LET ls == call.lines
        has(l) == \E i \in 1..Len(ls) : ls[i] = l
        v == ret.value
    IN  /\ has(VL_summary) =>
              /\ v.summary = OwnText(ls, VL_summary, X_likely_scam)
              /\ FieldFollows(ls, VL_summary) => v.summary = X_likely_scam
        /\ has(VL_caller) =>
              /\ v.caller_type = OwnText(ls, VL_caller, X_scammer)
              /\ FieldFollows(ls, VL_caller) => v.caller_type = X_scammer
        /\ has(VL_recommendation) =>
              /\ v.recommendation = OwnText(ls, VL_recommendation, X_hang_up)
              /\ FieldFollows(ls, VL_recommendation) =>
                    v.recommendation = X_hang_up

\* the five labelled lines give the same verdict in every order
SameVerdictEveryOrder ==
    /\ ret.value = CompleteVerdict
    /\ ret.value = [threat_level |-> L_SUSPICIOUS, threat_score |-> 62,
                    summary |-> X_likely_scam, caller_type |-> X_scammer,
                    recommendation |-> X_hang_up]

\* C25: summary, caller type and recommendation are each the text behind
\* their own label up to the next bulleted field, the end marker or the end
\* of the text, without the decorative characters, so that no field holds
\* the text of another field; the labelled lines give the same verdict in
\* every order.
C25_FieldsOwnTextAnyOrder ==
    /\ LinesReturned => FieldsOwnText
    /\ FieldOrderReturned => SameVerdictEveryOrder
    /\ (LinesReturned /\ call.lines \in NamedLabelOrders) =>
          ret.value = extract_final_verdict(VL_caller \o VL_summary_caller)

\* what holds of C25: the same, for the texts in which no field's text
\* names the label of another field
C25_PlainFieldsAnyOrder ==
    /\ (LinesReturned /\ call.lines \notin NamedLabelOrders) => FieldsOwnText
    /\ FieldOrderReturned => SameVerdictEveryOrder

\* the five lines in the reverse of the order of the instructions, between
\* the markers
C25_Witness ==
    /\ FieldOrderReturned
    /\ call.lines = <<V_marker, VL_recommendation, VL_caller, VL_summary,
                      VL_score, VL_level, V_done>>
    /\ ret.value.summary = X_likely_scam
    /\ ret.value.recommendation = X_hang_up

\* the lines between the first opening marker of ls and the first closing
\* marker behind it, or the end; all of ls when it has no opening marker
BlockLines(ls) ==
    LET opens == {i \in 1..Len(ls) : ls[i] = V_marker}
    IN  IF opens = {} THEN ls
        ELSE LET i == Least(opens)
                 closes == {k \in (i + 1)..Len(ls) : ls[k] = V_done}
                 j == IF closes = {} THEN Len(ls) + 1 ELSE Least(closes)
             IN  SubSeq(ls, i + 1, j - 1)

\* the five fields read from a block, lines 71-101
VerdictOfBlock(block) ==
    [threat_level |-> threat_level(block),
     threat_score |-> threat_score(block),
     summary |-> field(block, <<P_summary>>, <<>>),
     caller_type |-> field(block, <<P_caller, P_type>>, L_Unknown),
     recommendation |-> field(block, <<P_recommendation>>, <<>>)]

\* C26: with an opening marker FINAL_VERDICT in the text every field is
\* taken from the block between that marker and the closing marker
\* DECISION_DONE, or the end of the text, only: the text before the opening
\* and behind the closing marker does not influence the verdict. Without an
\* opening marker the entire text is scanned.
C26_OnlyTheBlockIsRead ==
    (call.op = "extract_final_verdict" /\ ret.done /\ call.lines # <<>>) =>
        ret.value = VerdictOfBlock(Flatten(BlockLines(call.lines)))

\* a labelled score before the opening marker and a bare score in the
\* block: the bare score is returned; a labelled score behind the closing
\* marker is not read
C26_Witness ==
    /\ call.op = "extract_final_verdict" /\ ret.done
    /\ call.lines = <<VL_score, V_marker, VL_bare_score>>
    /\ ret.value.threat_score = 40
    /\ extract_final_verdict(V_marker \o V_done \o VL_score).threat_score = 0
    /\ extract_final_verdict(VL_score \o VL_bare_score).threat_score = 62

\* the turns taken so far follow the cyclic order of the participants, no
\* participant has spoken more than twice, only the last message can mention
\* the sentinel, and a chat that still runs is below the ceiling
ChatSafe ==
    /\ chat_turns <= max_turns
    /\ chat_state # "built" => Len(chat_log) = chat_turns + 1
    /\ \A i \in 1..chat_turns :
          chat_log[i + 1].source = participants[((i - 1) % 4) + 1]
    /\ \A a \in Range(participants) :
          Cardinality({i \in 1..Len(chat_log) : chat_log[i].source = a}) <= 2
    /\ \A i \in 1..(Len(chat_log) - 1) : ~mentions(chat_log[i].content)
    /\ chat_state = "running" =>
          /\ chat_turns < max_turns
          /\ ~mentions(chat_log[Len(chat_log)].content)
    /\ \A i \in 1..(Len(chat_stream) - 1) : chat_stream[i] # "TaskResult"
    /\ chat_state = "ended" =>
          /\ chat_stream[Len(chat_stream)] = "TaskResult"
          /\ chat_turns = max_turns \/ mentions(chat_log[Len(chat_log)].content)
          /\ Len(chat_stream) = Len(chat_log) + 1

NotifiedAt(level) ==
    {who \in {"family", "police"} :
        \E c \in EscalateCalls :
            /\ c.threat_level = level
            /\ \E i \in 1..Len(escalate(c).actions) :
                  /\ escalate(c).actions[i].action = "notified"
                  /\ escalate(c).actions[i].who = who}

\* C28: every level that get_threat_level returns is a key of the rule
\* table; for every integer score the family is notified exactly when the
\* score is at least 50 and the police exactly when it is at least 75, and
\* a higher score notifies everyone a lower score notifies.
C28_ClassifiedLevelsEscalate ==
    (call.op = "get_threat_level" /\ ret.done) =>
        LET s == call.threat_score
            level == ret.value
        IN  /\ level \in DOMAIN ESCALATION_RULES
            /\ \A c \in EscalateCalls :
                  c.threat_level = level =>
                      /\ escalate(c).family # "none" <=> s >= 50
                      /\ escalate(c).police # "none" <=> s >= 75
                      /\ escalate(c).message = ESCALATION_RULES[level].message
            /\ "family" \in NotifiedAt(level) <=> s >= 50
            /\ "police" \in NotifiedAt(level) <=> s >= 75
            /\ \A c \in GetThreatLevelCalls :
                  c.threat_score >= s =>
                      NotifiedAt(level) \subseteq
                          NotifiedAt(get_threat_level(c.threat_score))

\* the score 75 is CRITICAL and notifies both, the score 74 is HIGH_RISK and
\* notifies the family only
C28_Witness ==
    /\ call.op = "get_threat_level" /\ ret.done
    /\ call.threat_score = 75
    /\ ret.value = "CRITICAL"
    /\ NotifiedAt(ret.value) = {"family", "police"}
    /\ NotifiedAt(get_threat_level(74)) = {"family"}
    /\ NotifiedAt(get_threat_level(49)) = {}

\* the entries of a list joined in order, each followed by a newline
RECURSIVE JoinedLines(_)
JoinedLines(msgs) ==
    IF msgs = <<>> THEN <<>>
    ELSE JoinedLines(SubSeq(msgs, 1, Len(msgs) - 1))
         \o LabelText(msgs[Len(msgs)]) \o <<"\n">>

\* C29: at every point of a run the combined log is the message list joined
\* in order with a newline behind each entry, and empty while the list is
\* empty, after appends, replacements and final-record merges alike; the
\* verdict is extracted from exactly the entries of the snapshot.
C29_LogIsJoinedMessages ==
    /\ LogText(full_log) = JoinedLines(messages)
    /\ messages = <<>> => LogText(full_log) = <<>>
    /\ LogText(final_log) = JoinedLines(final_messages)
    /\ shown.kind = "verdict" =>
          /\ LogText(shown.full_log) = JoinedLines(shown.pipeline)
          /\ shown.pipeline = messages

\* an entry was appended, then replaced in place, then the final record was
\* merged, and the verdict was extracted
C29_Witness ==
    /\ pc = "done"
    /\ shown.kind = "verdict"
    /\ final_seen
    /\ Len(streamed) = 2
    /\ streamed[1].source = streamed[2].source
    /\ streamed[1].content # streamed[2].content
    /\ messages # <<>>
    /\ LogText(shown.full_log) = JoinedLines(messages)

\* a call of store_result that has ended
StoreEnded(p) == db_calls[p].pc = "done"

\* C30: after any sequence of store_result calls the store holds at most
\* one record for each transcript text; a call returns the id of the record
\* it inserted, or None (reported as 'duplicate') when the text is stored
\* already, and never raises, also when two calls for one text interleave;
\* a stored record is never changed.
C30_OneRecordPerText ==
    /\ [](/\ \A i, j \in 1..Len(db_rows) :
                db_rows[i].text = db_rows[j].text => i = j
          /\ \A p \in StoreCallers :
                StoreEnded(p) =>
                    /\ db_calls[p].outcome = "returned"
                    /\ LET c == db_calls[p]
                       IN  IF c.value = ReturnedNone
                           THEN /\ store_call_result(c.value) = "duplicate"
                                /\ \E i \in 1..Len(db_rows) : db_rows[i].text = c.text
                           ELSE /\ store_call_result(c.value) # "duplicate"
                                /\ c.value.id \in 1..Len(db_rows)
                                /\ db_rows[c.value.id].id = c.value.id
                                /\ db_rows[c.value.id].text = c.text
                                /\ db_rows[c.value.id].summary = c.summary)
    /\ [][\A i \in 1..Len(db_rows) :
             i <= Len(db_rows') /\ db_rows'[i] = db_rows[i]]_vars

\* what holds of C30 for both connectors: one record for each text, never
\* changed once stored; and for the MongoDB connector every call returns
StoreKeepsOneRecord ==
    /\ \A i, j \in 1..Len(db_rows) : db_rows[i].text = db_rows[j].text => i = j
    /\ db_kind = "mongo" =>
          \A p \in StoreCallers : StoreEnded(p) => db_calls[p].outcome = "returned"

====
